---- MODULE Spec2Model ----
(***************************************************************************)
(* A model of backend/lang.py: the versioned concept graph kept in         *)
(* SQLite (lang_words, lang_word_versions, child_words,                    *)
(* lang_word_children), the llm_tasks queue, the in-process worker that    *)
(* drains it, and the apply step that turns a temporary_writings row into  *)
(* graph state.                                                            *)
(*                                                                         *)
(* Storage model.  Every connection runs with Python's sqlite3 default     *)
(* (deferred) transaction handling on one WAL database: a SELECT outside   *)
(* a transaction reads the last committed state; the first                 *)
(* INSERT/UPDATE/DELETE of a handler opens a transaction that holds the    *)
(* single write lock until commit, so everything from a handler's first    *)
(* write to its commit is one atomic step for every other connection,      *)
(* while the SELECTs a handler runs before its first write are separate    *)
(* steps.  A handler that raises before commit closes its connection and   *)
(* its writes are rolled back.                                             *)
(***************************************************************************)
EXTENDS Integers, Sequences, FiniteSets, TLC

VARIABLES
    lang_words,          \* rows [id, word]
    lang_word_versions,  \* rows [id, lang_word_id, version]
    child_words,         \* rows [id, lang_word_version_id, word]
    lang_word_children,  \* rows [parent_lang_word_version_id, child_lang_word_id]
    lang_sentences,      \* rows [id, lang_word_ids]
    child_sentences,     \* rows [id, lang_sentence_id, child_word_ids, lang_word_ids]
    star_stuff,          \* rows [id, child_word_id, prompt_type, task_id]
    llm_tasks,           \* rows [id, parent_lang_word_id, task_type, identifier, status, error, result_writing_id]
    temporary_writings,  \* rows [id, parent_lang_word_id, prompt_type, text, task_id]
    sqlite_sequence,     \* AUTOINCREMENT high-water mark of every table
    worker,              \* per server process: the worker thread's position and locals
    req,                 \* per request thread: the handler's position, locals and response
    issued,              \* history: every (lang_word_id, version) ever committed
    _worker_started,     \* the module's flag of the same name
    _worker_lock,        \* the request thread that holds the module's lock, or NULL
    roots,               \* tree_ops: the ids of the "roots" list of the loaded JSON, in order
    nodes,               \* tree_ops: per node id, its "children" and "parent_writing_id"
    moved                \* tree_ops: the last call of move_node and whether it raised

vars == <<lang_words, lang_word_versions, child_words, lang_word_children,
          lang_sentences, child_sentences, star_stuff, llm_tasks,
          temporary_writings, sqlite_sequence, worker, req, issued,
          _worker_started, _worker_lock, roots, nodes, moved>>

\* The variables of the tree script, which shares nothing with the server.
tree_ops == <<roots, nodes, moved>>

(***************************************************************************)
(* Bounds of the model.                                                    *)
(***************************************************************************)
MaxWords == 4        \* lang_words rows ever inserted
MaxVersions == 4     \* lang_word_versions rows ever inserted
MaxPhrases == 1      \* child_words rows ever inserted when a phrase request arrives
MaxEdges == 2        \* lang_word_children rows ever inserted by edge requests
MaxTasks == 2        \* llm_tasks rows ever inserted
MaxPrompts == 2      \* length of the prompts list of one star-stuff request

(***************************************************************************)
(* Values.                                                                 *)
(***************************************************************************)
NULL == 0            \* SQL NULL / Python None in an integer column
NoError == "NULL"    \* SQL NULL in llm_tasks.error

Max(S) == IF S = {} THEN 0 ELSE CHOOSE x \in S : \A y \in S : y <= x

SeqToSet(s) == {s[i] : i \in 1..Len(s)}

\* str.strip() on the strings the model feeds in.
Strip(s) ==
    CASE s = " a" -> "a"
      [] s = "b " -> "b"
      [] s = "q " -> "q"
      [] s = " " -> ""
      [] OTHER -> s

(***************************************************************************)
(* The database as one value, so that a transaction is a function from     *)
(* database to database and commit installs its result.                    *)
(***************************************************************************)
DB ==
    [lang_words |-> lang_words,
     lang_word_versions |-> lang_word_versions,
     child_words |-> child_words,
     lang_word_children |-> lang_word_children,
     lang_sentences |-> lang_sentences,
     child_sentences |-> child_sentences,
     star_stuff |-> star_stuff,
     llm_tasks |-> llm_tasks,
     temporary_writings |-> temporary_writings,
     sqlite_sequence |-> sqlite_sequence]

\* db.commit()
Commit(D) ==
    /\ lang_words' = D.lang_words
    /\ lang_word_versions' = D.lang_word_versions
    /\ child_words' = D.child_words
    /\ lang_word_children' = D.lang_word_children
    /\ lang_sentences' = D.lang_sentences
    /\ child_sentences' = D.child_sentences
    /\ star_stuff' = D.star_stuff
    /\ llm_tasks' = D.llm_tasks
    /\ temporary_writings' = D.temporary_writings
    /\ sqlite_sequence' = D.sqlite_sequence
    /\ issued' = issued \cup {<<v.lang_word_id, v.version>> : v \in D.lang_word_versions}

\* The connection is closed without commit: nothing it wrote is kept.
Rollback ==
    UNCHANGED <<lang_words, lang_word_versions, child_words, lang_word_children,
                lang_sentences, child_sentences, star_stuff, llm_tasks,
                temporary_writings, sqlite_sequence, issued>>

EmptyDB ==
    [lang_words |-> {},
     lang_word_versions |-> {},
     child_words |-> {},
     lang_word_children |-> {},
     lang_sentences |-> {},
     child_sentences |-> {},
     star_stuff |-> {},
     llm_tasks |-> {},
     temporary_writings |-> {},
     sqlite_sequence |-> [lang_words |-> 0, lang_word_versions |-> 0,
                          child_words |-> 0, lang_word_children |-> 0,
                          lang_sentences |-> 0,
                          child_sentences |-> 0, star_stuff |-> 0,
                          llm_tasks |-> 0, temporary_writings |-> 0]]

\* An INTEGER PRIMARY KEY AUTOINCREMENT insert: the new rowid is one past
\* the table's high-water mark, which deletes never lower.
NextId(D, table) == D.sqlite_sequence[table] + 1

Bump(D, table) == [D.sqlite_sequence EXCEPT ![table] = @ + 1]

(***************************************************************************)
(* Statements on the concept tables.  A statement that violates a          *)
(* constraint raises sqlite3.IntegrityError: ok is FALSE and the database  *)
(* is as before the statement.                                             *)
(***************************************************************************)
WordIds(D) == {w.id : w \in D.lang_words}

VersionIds(D) == {v.id : v \in D.lang_word_versions}

VersionsOf(D, lang_word_id) ==
    {v \in D.lang_word_versions : v.lang_word_id = lang_word_id}

VersionNumbers(D, lang_word_id) ==
    {v.version : v \in VersionsOf(D, lang_word_id)}

\* SELECT id FROM lang_words WHERE word=?  (NULL when there is no row)
WordIdByText(D, word) ==
    IF \E w \in D.lang_words : w.word = word
    THEN (CHOOSE w \in D.lang_words : w.word = word).id
    ELSE NULL

\* The INSERT on a lang_words table whose word column is not UNIQUE.
InsertLangWord_NoUnique(D, word) ==
    [ok |-> TRUE,
     id |-> NextId(D, "lang_words"),
     db |-> [D EXCEPT !.lang_words = @ \cup {[id |-> NextId(D, "lang_words"), word |-> word]},
                      !.sqlite_sequence = Bump(D, "lang_words")]]

\* INSERT INTO lang_words (word) VALUES (?)   -- word TEXT NOT NULL UNIQUE
InsertLangWord(D, word) ==
    IF \E w \in D.lang_words : w.word = word
    THEN [ok |-> FALSE, id |-> NULL, db |-> D]
    ELSE [ok |-> TRUE,
          id |-> NextId(D, "lang_words"),
          db |-> [D EXCEPT !.lang_words = @ \cup {[id |-> NextId(D, "lang_words"), word |-> word]},
                           !.sqlite_sequence = Bump(D, "lang_words")]]

\* The INSERT on a table without UNIQUE(lang_word_id, version).
InsertVersion_NoUnique(D, lang_word_id, version) ==
    IF lang_word_id \notin WordIds(D)
    THEN [ok |-> FALSE, id |-> NULL, db |-> D]
    ELSE [ok |-> TRUE,
          id |-> NextId(D, "lang_word_versions"),
          db |-> [D EXCEPT !.lang_word_versions = @ \cup
                               {[id |-> NextId(D, "lang_word_versions"),
                                 lang_word_id |-> lang_word_id,
                                 version |-> version]},
                           !.sqlite_sequence = Bump(D, "lang_word_versions")]]

\* INSERT INTO lang_word_versions (lang_word_id, version) VALUES (?, ?)
\*   UNIQUE(lang_word_id, version), FOREIGN KEY (lang_word_id) REFERENCES lang_words(id)
InsertVersion(D, lang_word_id, version) ==
    IF \/ lang_word_id \notin WordIds(D)
       \/ version \in VersionNumbers(D, lang_word_id)
    THEN [ok |-> FALSE, id |-> NULL, db |-> D]
    ELSE [ok |-> TRUE,
          id |-> NextId(D, "lang_word_versions"),
          db |-> [D EXCEPT !.lang_word_versions = @ \cup
                               {[id |-> NextId(D, "lang_word_versions"),
                                 lang_word_id |-> lang_word_id,
                                 version |-> version]},
                           !.sqlite_sequence = Bump(D, "lang_word_versions")]]

\* INSERT INTO child_words (lang_word_version_id, word, link) VALUES (?, ?, NULL)
InsertChildWord(D, version_id, word) ==
    IF version_id \notin VersionIds(D)
    THEN [ok |-> FALSE, id |-> NULL, db |-> D]
    ELSE [ok |-> TRUE,
          id |-> NextId(D, "child_words"),
          db |-> [D EXCEPT !.child_words = @ \cup
                               {[id |-> NextId(D, "child_words"),
                                 lang_word_version_id |-> version_id,
                                 word |-> word]},
                           !.sqlite_sequence = Bump(D, "child_words")]]

\* The INSERT on a lang_word_children table without UNIQUE(parent, child).
InsertEdge_NoUnique(D, parent_version_id, child_lang_word_id) ==
    IF parent_version_id \notin {v.id : v \in D.lang_word_versions}
          \/ child_lang_word_id \notin {w.id : w \in D.lang_words}
    THEN [ok |-> FALSE, db |-> D]
    ELSE [ok |-> TRUE,
          db |-> [D EXCEPT !.lang_word_children = @ \cup
                      {[id |-> NextId(D, "lang_word_children"),
                        parent_lang_word_version_id |-> parent_version_id,
                        child_lang_word_id |-> child_lang_word_id]},
                           !.sqlite_sequence = Bump(D, "lang_word_children")]]

\* INSERT OR IGNORE INTO lang_word_children (parent_lang_word_version_id, child_lang_word_id)
\*   UNIQUE(parent, child) conflicts are ignored; a missing parent or child is
\*   a foreign key failure, which OR IGNORE does not cover.
InsertEdgeOrIgnore(D, parent_version_id, child_lang_word_id) ==
    IF parent_version_id \notin VersionIds(D) \/ child_lang_word_id \notin WordIds(D)
    THEN [ok |-> FALSE, db |-> D]
    ELSE IF \E e \in D.lang_word_children :
               /\ e.parent_lang_word_version_id = parent_version_id
               /\ e.child_lang_word_id = child_lang_word_id
    THEN [ok |-> TRUE, db |-> D]
    ELSE [ok |-> TRUE,
          db |-> [D EXCEPT !.lang_word_children = @ \cup
                      {[id |-> NextId(D, "lang_word_children"),
                        parent_lang_word_version_id |-> parent_version_id,
                        child_lang_word_id |-> child_lang_word_id]},
                           !.sqlite_sequence = Bump(D, "lang_word_children")]]

\* The DELETE of a version row on a schema whose edges do not cascade.
DeleteVersionRow_EdgesKept(D, version_id) ==
    [D EXCEPT !.lang_word_versions = {v \in @ : v.id # version_id},
              !.child_words = {c \in @ : c.lang_word_version_id # version_id},
              !.star_stuff =
                  {s \in @ : \E c \in D.child_words :
                       c.id = s.child_word_id /\ c.lang_word_version_id # version_id}]

\* DELETE FROM lang_word_versions WHERE id=?  with its ON DELETE CASCADE rows
DeleteVersionRow(D, version_id) ==
    [D EXCEPT !.lang_word_versions = {v \in @ : v.id # version_id},
              !.child_words = {c \in @ : c.lang_word_version_id # version_id},
              !.star_stuff =
                  {s \in @ : \E c \in D.child_words :
                       c.id = s.child_word_id /\ c.lang_word_version_id # version_id},
              !.lang_word_children =
                  {e \in @ : e.parent_lang_word_version_id # version_id}]

\* The DELETE of a lang word on a schema whose llm_tasks and
\* temporary_writings rows do not cascade.
DeleteWordRow_TasksKept(D, lang_word_id) ==
    LET gone == {v.id : v \in {x \in D.lang_word_versions : x.lang_word_id = lang_word_id}}
        keptCw == {c \in D.child_words : c.lang_word_version_id \notin gone}
    IN [D EXCEPT !.lang_words = {w \in @ : w.id # lang_word_id},
                 !.lang_word_versions = {v \in @ : v.lang_word_id # lang_word_id},
                 !.child_words = keptCw,
                 !.star_stuff = {s \in @ : s.child_word_id \in {c.id : c \in keptCw}},
                 !.lang_word_children =
                     {e \in @ : /\ e.parent_lang_word_version_id \notin gone
                                /\ e.child_lang_word_id # lang_word_id}]

\* DELETE FROM lang_words WHERE id=?  with its ON DELETE CASCADE rows
DeleteWordRow(D, lang_word_id) ==
    LET gone == {v.id : v \in VersionsOf(D, lang_word_id)}
        keptCw == {c \in D.child_words : c.lang_word_version_id \notin gone}
    IN [D EXCEPT !.lang_words = {w \in @ : w.id # lang_word_id},
                 !.lang_word_versions = {v \in @ : v.lang_word_id # lang_word_id},
                 !.child_words = keptCw,
                 !.star_stuff = {s \in @ : s.child_word_id \in {c.id : c \in keptCw}},
                 !.lang_word_children =
                     {e \in @ : /\ e.parent_lang_word_version_id \notin gone
                                /\ e.child_lang_word_id # lang_word_id},
                 !.llm_tasks = {t \in @ : t.parent_lang_word_id # lang_word_id},
                 !.temporary_writings = {t \in @ : t.parent_lang_word_id # lang_word_id}]

\* SELECT ... FROM lang_word_versions WHERE lang_word_id=? ORDER BY version DESC LIMIT 1
\* The first row of the descending order; NULL (0) when the word has no version.
LatestVersionRow(D, lang_word_id) ==
    CHOOSE v \in VersionsOf(D, lang_word_id) :
        \A u \in VersionsOf(D, lang_word_id) : u.version <= v.version

_get_latest_version_id(D, lang_word_id) ==
    IF VersionsOf(D, lang_word_id) = {} THEN NULL
    ELSE LatestVersionRow(D, lang_word_id).id

\* create_next_version's SELECT and arithmetic:
\*   next_version = int(last["version"]) + 1 if last else 1
next_version(D, lang_word_id) ==
    IF VersionsOf(D, lang_word_id) = {} THEN 1
    ELSE LatestVersionRow(D, lang_word_id).version + 1

\* create_next_version, run inside an open transaction (SELECT and INSERT
\* see the same database).
create_next_version(D, lang_word_id) ==
    InsertVersion(D, lang_word_id, next_version(D, lang_word_id))

\* ensure_word_has_v1: the newest version's id, inserting version 1 if the
\* word has none.
ensure_word_has_v1(D, lang_word_id) ==
    IF VersionsOf(D, lang_word_id) # {}
    THEN [ok |-> TRUE, id |-> LatestVersionRow(D, lang_word_id).id, db |-> D]
    ELSE InsertVersion(D, lang_word_id, 1)

(***************************************************************************)
(* Request threads.  A slot of req is one request being served; a slot     *)
(* that is idle or done can take the next request.                         *)
(***************************************************************************)
\* temporary_writings.text: json.dumps({"themes": themes}), or text that
\* json.loads rejects.
JSONText(themes) == [json |-> TRUE, themes |-> themes]

NotJSON == [json |-> FALSE, themes |-> <<>>]

NoWriting == [id |-> NULL, parent_lang_word_id |-> NULL, prompt_type |-> "",
              text |-> JSONText(<<>>), task_id |-> NULL]

\* What the handler returned: HTTP status, the id in the body (task_id,
\* lang_word_id or version_id), the deduped flag, and apply's "created" list.
Resp(code, id, deduped, created) ==
    [code |-> code, id |-> id, deduped |-> deduped, created |-> created]

NoResp == Resp(0, NULL, FALSE, <<>>)

IdleReq ==
    [op |-> "none", pc |-> "idle", arg |-> NULL, child |-> NULL, kind |-> "",
     ident |-> [child_word_id |-> NULL, sentence_id |-> NULL, lang_word_ids |-> <<>>],
     wr |-> NoWriting, next_version |-> NULL, parent_version_id |-> NULL,
     resp |-> NoResp]

Free(r) == req[r].pc \in {"idle", "done"}

\* The handler returns: the slot keeps the request and its response until
\* the thread serves the next request.
Return(r, op, arg, resp) ==
    req' = [req EXCEPT ![r] = [IdleReq EXCEPT !.op = op, !.pc = "done",
                                              !.arg = arg, !.resp = resp]]

(***************************************************************************)
(* POST /api/lang_words and POST /api/lang_words/parents                   *)
(***************************************************************************)
create_lang_word_generic(r, raw) ==
    /\ Free(r)
    /\ sqlite_sequence.lang_words < MaxWords
    /\ LET word == Strip(raw)
           w == InsertLangWord(DB, word)
           v == ensure_word_has_v1(w.db, w.id)
       IN IF word = ""
          THEN Rollback /\ Return(r, "create_lang_word", NULL, Resp(400, NULL, FALSE, <<>>))
          ELSE IF ~w.ok
          THEN Rollback /\ Return(r, "create_lang_word", NULL, Resp(500, NULL, FALSE, <<>>))
          ELSE Commit(v.db) /\ Return(r, "create_lang_word", w.id, Resp(201, w.id, FALSE, <<>>))
    /\ UNCHANGED <<worker, _worker_started, _worker_lock, tree_ops>>

(***************************************************************************)
(* POST /api/lang_words/<id>/versions: two SELECTs, then INSERT and commit *)
(***************************************************************************)
create_lang_word_version_read(r, lang_word_id) ==
    /\ Free(r)
    /\ IF lang_word_id \notin WordIds(DB)
       THEN Return(r, "create_version", lang_word_id, Resp(404, NULL, FALSE, <<>>))
       ELSE req' = [req EXCEPT ![r] =
                [IdleReq EXCEPT !.op = "create_version", !.pc = "insert",
                                !.arg = lang_word_id,
                                !.next_version = next_version(DB, lang_word_id)]]
    /\ Rollback
    /\ UNCHANGED <<worker, _worker_started, _worker_lock, tree_ops>>

create_lang_word_version_insert(r) ==
    /\ req[r].op = "create_version" /\ req[r].pc = "insert"
    /\ sqlite_sequence.lang_word_versions < MaxVersions
    /\ LET v == InsertVersion(DB, req[r].arg, req[r].next_version)
       IN IF v.ok
          THEN /\ Commit(v.db)
               /\ req' = [req EXCEPT ![r].pc = "done",
                                     ![r].resp = Resp(201, v.id, FALSE, <<>>)]
          ELSE /\ Rollback
               /\ req' = [req EXCEPT ![r].pc = "done",
                                     ![r].resp = Resp(500, NULL, FALSE, <<>>)]
    /\ UNCHANGED <<worker, _worker_started, _worker_lock, tree_ops>>

(***************************************************************************)
(* DELETE /api/lang_word_versions/<id> and DELETE /api/lang_words/<id>     *)
(***************************************************************************)
delete_lang_word_version(r, version_id) ==
    /\ Free(r)
    /\ Commit(DeleteVersionRow(DB, version_id))
    /\ Return(r, "delete_version", version_id, Resp(200, NULL, FALSE, <<>>))
    /\ UNCHANGED <<worker, _worker_started, _worker_lock, tree_ops>>

delete_lang_word(r, lang_word_id) ==
    /\ Free(r)
    /\ Commit(DeleteWordRow(DB, lang_word_id))
    /\ Return(r, "delete_word", lang_word_id, Resp(200, NULL, FALSE, <<>>))
    /\ UNCHANGED <<worker, _worker_started, _worker_lock, tree_ops>>

(***************************************************************************)
(* Edges: POST and DELETE /api/lang_word_versions/<id>/child_lang_words,   *)
(* and the root rows of GET /api/write.                                    *)
(***************************************************************************)
\* DELETE FROM lang_word_children WHERE parent_lang_word_version_id=? AND child_lang_word_id=?
DeleteEdge(D, version_id, child_lang_word_id) ==
    [D EXCEPT !.lang_word_children =
                  {e \in @ : ~(/\ e.parent_lang_word_version_id = version_id
                               /\ e.child_lang_word_id = child_lang_word_id)}]

\* The handler answers with the two ids of the request.
EdgeReturn(r, op, version_id, child_lang_word_id, code) ==
    req' = [req EXCEPT ![r] = [IdleReq EXCEPT !.op = op, !.pc = "done",
                                              !.arg = version_id,
                                              !.child = child_lang_word_id,
                                              !.resp = Resp(code, NULL, FALSE, <<>>)]]

\* The handler without its SELECT of the child lang word: the INSERT fails
\* on the foreign key and the request ends in an unhandled exception.
add_child_lang_word_NoChildCheck(r, version_id, child_lang_word_id) ==
    /\ Free(r)
    /\ InsertEdgeOrIgnore(DB, version_id, child_lang_word_id).db
          .sqlite_sequence.lang_word_children <= MaxEdges
    /\ LET op == "add_child_lang_word"
           e == InsertEdgeOrIgnore(DB, version_id, child_lang_word_id)
       IN IF version_id \notin VersionIds(DB)
          THEN Rollback /\ EdgeReturn(r, op, version_id, child_lang_word_id, 404)
          ELSE IF ~e.ok
          THEN Rollback /\ EdgeReturn(r, op, version_id, child_lang_word_id, 500)
          ELSE Commit(e.db) /\ EdgeReturn(r, op, version_id, child_lang_word_id, 200)
    /\ UNCHANGED <<worker, _worker_started, _worker_lock, tree_ops>>

add_child_lang_word(r, version_id, child_lang_word_id) ==
    /\ Free(r)
    /\ InsertEdgeOrIgnore(DB, version_id, child_lang_word_id).db
          .sqlite_sequence.lang_word_children <= MaxEdges
    /\ LET op == "add_child_lang_word"
           e == InsertEdgeOrIgnore(DB, version_id, child_lang_word_id)
       IN IF version_id \notin VersionIds(DB) \/ child_lang_word_id \notin WordIds(DB)
          THEN Rollback /\ EdgeReturn(r, op, version_id, child_lang_word_id, 404)
          ELSE Commit(e.db) /\ EdgeReturn(r, op, version_id, child_lang_word_id, 200)
    /\ UNCHANGED <<worker, _worker_started, _worker_lock, tree_ops>>

delete_child_lang_word(r, version_id, child_lang_word_id) ==
    /\ Free(r)
    /\ LET op == "delete_child_lang_word"
       IN IF version_id \notin VersionIds(DB)
          THEN Rollback /\ EdgeReturn(r, op, version_id, child_lang_word_id, 404)
          ELSE Commit(DeleteEdge(DB, version_id, child_lang_word_id))
               /\ EdgeReturn(r, op, version_id, child_lang_word_id, 200)
    /\ UNCHANGED <<worker, _worker_started, _worker_lock, tree_ops>>

\* POST /api/lang_word_versions/<id>/child_words
create_child_word(r, version_id, raw) ==
    /\ Free(r)
    /\ sqlite_sequence.child_words < MaxPhrases
    /\ LET op == "create_child_word"
           word == Strip(raw)
           c == InsertChildWord(DB, version_id, word)
       IN IF version_id \notin VersionIds(DB)
          THEN Rollback /\ Return(r, op, version_id, Resp(404, NULL, FALSE, <<>>))
          ELSE IF word = ""
          THEN Rollback /\ Return(r, op, version_id, Resp(400, NULL, FALSE, <<>>))
          ELSE Commit(c.db) /\ Return(r, op, version_id, Resp(201, c.id, FALSE, <<>>))
    /\ UNCHANGED <<worker, _worker_started, _worker_lock, tree_ops>>

\* write_tree's root_rows, as the set of their ids:
\* SELECT ... FROM lang_words w WHERE NOT EXISTS
\*   (SELECT 1 FROM lang_word_children lwc WHERE lwc.child_lang_word_id = w.id)
root_rows(D) ==
    {w.id : w \in {x \in D.lang_words :
                      ~\E lwc \in D.lang_word_children : lwc.child_lang_word_id = x.id}}

(***************************************************************************)
(* POST /api/temporary_writings/<id>/apply_create_lang_words               *)
(***************************************************************************)
\* One "created" entry of the response.
Created(child_lang_word_id, word, child_version_id) ==
    [child_lang_word_id |-> child_lang_word_id, word |-> word,
     child_version_id |-> child_version_id]

\* for phrase in orbit: strip, skip empty, INSERT INTO child_words
RECURSIVE InsertOrbit(_, _, _, _)
InsertOrbit(D, child_version_id, orbit, i) ==
    IF i > Len(orbit) THEN D
    ELSE LET phrase == Strip(orbit[i])
         IN IF phrase = ""
            THEN InsertOrbit(D, child_version_id, orbit, i + 1)
            ELSE InsertOrbit(InsertChildWord(D, child_version_id, phrase).db,
                             child_version_id, orbit, i + 1)

\* ApplyTheme with the bug of putting the phrases under the reused word's
\* newest existing version instead of minting one for it.
ApplyTheme_PhrasesUnderLatest(D, parent_version_id, theme_word, orbit) ==
    LET existing == WordIdByText(D, theme_word)
        ins == InsertLangWord(D, theme_word)
        child_lang_word_id == IF existing # NULL THEN existing ELSE ins.id
        D1 == IF existing # NULL THEN D ELSE ins.db
        cv == ensure_word_has_v1(D1, child_lang_word_id)
        D2 == InsertEdgeOrIgnore(cv.db, parent_version_id, child_lang_word_id).db
    IN [db |-> InsertOrbit(D2, cv.id, orbit, 1),
        created |-> Created(child_lang_word_id, theme_word, cv.id)]

\* ApplyTheme with the bug of linking the theme to the version the parent
\* had before this apply minted a new one.
ApplyTheme_EdgeFromOldVersion(D, parent_version_id, theme_word, orbit) ==
    LET existing == WordIdByText(D, theme_word)
        ins == InsertLangWord(D, theme_word)
        child_lang_word_id == IF existing # NULL THEN existing ELSE ins.id
        D1 == IF existing # NULL THEN D ELSE ins.db
        cv == IF existing # NULL
              THEN create_next_version(D1, child_lang_word_id)
              ELSE ensure_word_has_v1(D1, child_lang_word_id)
        pv == CHOOSE v \in D.lang_word_versions : v.id = parent_version_id
        older == {v.id : v \in {u \in VersionsOf(D, pv.lang_word_id) : u.id < pv.id}}
        D2 == InsertEdgeOrIgnore(cv.db, IF older = {} THEN pv.id ELSE Max(older),
                                 child_lang_word_id).db
    IN [db |-> InsertOrbit(D2, cv.id, orbit, 1),
        created |-> Created(child_lang_word_id, theme_word, cv.id)]

\* The body of "for t in themes" for one theme that is a dict with a
\* non-empty name: reuse or create the child word, give it a version, link
\* it to the new parent version, add its phrases.
ApplyTheme(D, parent_version_id, theme_word, orbit) ==
    LET existing == WordIdByText(D, theme_word)
        ins == InsertLangWord(D, theme_word)
        child_lang_word_id == IF existing # NULL THEN existing ELSE ins.id
        D1 == IF existing # NULL THEN D ELSE ins.db
        cv == IF existing # NULL
              THEN create_next_version(D1, child_lang_word_id)
              ELSE ensure_word_has_v1(D1, child_lang_word_id)
        D2 == InsertEdgeOrIgnore(cv.db, parent_version_id, child_lang_word_id).db
    IN [db |-> InsertOrbit(D2, cv.id, orbit, 1),
        created |-> Created(child_lang_word_id, theme_word, cv.id)]

\* "for t in themes": entries that are not dicts, or whose name strips to
\* nothing, are skipped.
RECURSIVE ApplyThemes(_, _, _, _, _)
ApplyThemes(D, parent_version_id, themes, i, created) ==
    IF i > Len(themes) THEN [db |-> D, created |-> created]
    ELSE LET t == themes[i]
             theme_word == Strip(t.theme)
             one == ApplyTheme(D, parent_version_id, theme_word,
                               IF t.orbit_is_list THEN t.orbiting_phrases ELSE <<>>)
         IN IF ~t.is_dict \/ theme_word = ""
            THEN ApplyThemes(D, parent_version_id, themes, i + 1, created)
            ELSE ApplyThemes(one.db, parent_version_id, themes, i + 1,
                             Append(created, one.created))

\* DELETE FROM temporary_writings WHERE id=?
DeleteWriting(D, writing_id) ==
    [D EXCEPT !.temporary_writings = {w \in @ : w.id # writing_id}]

\* apply_load without the 404 for a missing row: the call goes on to mint
\* the next version of lang word 1 and answers 200.
apply_load_NoNotFound(r, writing_id) ==
    /\ Free(r)
    /\ LET found == {w \in temporary_writings : w.id = writing_id}
           wr == CHOOSE w \in found : TRUE
           pv == create_next_version(DB, 1)
       IN IF found = {}
          THEN /\ Commit(pv.db)
               /\ Return(r, "apply", writing_id, Resp(200, NULL, FALSE, <<>>))
          ELSE /\ Rollback
               /\ req' = [req EXCEPT ![r] =
                      [IdleReq EXCEPT !.op = "apply", !.pc = "loaded",
                                      !.arg = writing_id, !.wr = wr]]
    /\ UNCHANGED <<worker, _worker_started, _worker_lock, tree_ops>>

\* SELECT ... FROM temporary_writings WHERE id=?; 404 and 400 checks.
apply_load(r, writing_id) ==
    /\ Free(r)
    /\ LET found == {w \in temporary_writings : w.id = writing_id}
           wr == CHOOSE w \in found : TRUE
       IN IF found = {}
          THEN Return(r, "apply", writing_id, Resp(404, NULL, FALSE, <<>>))
          ELSE IF wr.prompt_type # "create_lang_words"
          THEN Return(r, "apply", writing_id, Resp(400, NULL, FALSE, <<>>))
          ELSE req' = [req EXCEPT ![r] =
                   [IdleReq EXCEPT !.op = "apply", !.pc = "loaded",
                                   !.arg = writing_id, !.wr = wr]]
    /\ Rollback
    /\ UNCHANGED <<worker, _worker_started, _worker_lock, tree_ops>>

\* create_next_version's SELECT for the parent, still outside a transaction.
apply_read_last(r) ==
    /\ req[r].op = "apply" /\ req[r].pc = "loaded"
    /\ req' = [req EXCEPT ![r].pc = "insert",
                          ![r].next_version = next_version(DB, req[r].wr.parent_lang_word_id)]
    /\ Rollback
    /\ UNCHANGED <<worker, _worker_started, _worker_lock, tree_ops>>

\* apply_commit that commits the version row when the text does not parse.
apply_commit_KeepsVersion(r) ==
    /\ req[r].op = "apply" /\ req[r].pc = "insert"
    /\ LET wr == req[r].wr
           pv == InsertVersion(DB, wr.parent_lang_word_id, req[r].next_version)
           res == ApplyThemes(pv.db, pv.id, wr.text.themes, 1, <<>>)
           D == DeleteWriting(res.db, wr.id)
       IN IF ~pv.ok
          THEN /\ Rollback
               /\ req' = [req EXCEPT ![r].pc = "done",
                                     ![r].resp = Resp(500, NULL, FALSE, <<>>)]
          ELSE IF ~wr.text.json
          THEN /\ Commit(pv.db)
               /\ req' = [req EXCEPT ![r].pc = "done",
                                     ![r].resp = Resp(400, NULL, FALSE, <<>>)]
          ELSE /\ Commit(D)
               /\ req' = [req EXCEPT ![r].pc = "done",
                                     ![r].parent_version_id = pv.id,
                                     ![r].resp = Resp(200, wr.parent_lang_word_id,
                                                      FALSE, res.created)]
    /\ UNCHANGED <<worker, _worker_started, _worker_lock, tree_ops>>

\* From create_next_version's INSERT to db.commit(): one transaction.  The
\* INSERT may be refused (500); json.loads may reject the text (400); in
\* both cases the request ends without commit and close_db drops the
\* connection with its open transaction.
apply_commit(r) ==
    /\ req[r].op = "apply" /\ req[r].pc = "insert"
    /\ LET wr == req[r].wr
           pv == InsertVersion(DB, wr.parent_lang_word_id, req[r].next_version)
           res == ApplyThemes(pv.db, pv.id, wr.text.themes, 1, <<>>)
           D == DeleteWriting(res.db, wr.id)
       IN IF ~pv.ok
          THEN /\ Rollback
               /\ req' = [req EXCEPT ![r].pc = "done",
                                     ![r].resp = Resp(500, NULL, FALSE, <<>>)]
          ELSE IF ~wr.text.json
          THEN /\ Rollback
               /\ req' = [req EXCEPT ![r].pc = "done",
                                     ![r].resp = Resp(400, NULL, FALSE, <<>>)]
          ELSE /\ Commit(D)
               /\ req' = [req EXCEPT ![r].pc = "done",
                                     ![r].parent_version_id = pv.id,
                                     ![r].resp = Resp(200, wr.parent_lang_word_id,
                                                      FALSE, res.created)]
    /\ UNCHANGED <<worker, _worker_started, _worker_lock, tree_ops>>

(***************************************************************************)
(* The task queue: llm_tasks rows and the handlers that insert them.       *)
(***************************************************************************)
\* llm_tasks.identifier, a JSON object: the keys the handlers read.
Ident(child_word_id, sentence_id, lang_word_ids) ==
    [child_word_id |-> child_word_id, sentence_id |-> sentence_id,
     lang_word_ids |-> lang_word_ids]

NoIdent == Ident(NULL, NULL, <<>>)

InFlight == {"queued", "running"}

\* INSERT INTO llm_tasks (parent_lang_word_id, task_type, identifier, payload, status)
\*   VALUES (?, ?, ?, ?, 'queued')     -- FOREIGN KEY (parent_lang_word_id)
InsertTask(D, parent_lang_word_id, task_type, identifier) ==
    IF parent_lang_word_id \notin WordIds(D)
    THEN [ok |-> FALSE, id |-> NULL, db |-> D]
    ELSE [ok |-> TRUE,
          id |-> NextId(D, "llm_tasks"),
          db |-> [D EXCEPT !.llm_tasks = @ \cup
                               {[id |-> NextId(D, "llm_tasks"),
                                 parent_lang_word_id |-> parent_lang_word_id,
                                 task_type |-> task_type,
                                 identifier |-> identifier,
                                 status |-> "queued",
                                 error |-> NoError,
                                 result_writing_id |-> NULL]},
                           !.sqlite_sequence = Bump(D, "llm_tasks")]]

\* The lookup with status = 'queued' in place of IN ('queued','running').
ExistingTask_QueuedOnly(D, parent_lang_word_id, task_type) ==
    Max({t.id : t \in {u \in D.llm_tasks : /\ u.parent_lang_word_id = parent_lang_word_id
                                            /\ u.task_type = task_type
                                            /\ u.status = "queued"}})

\* SELECT id, status FROM llm_tasks WHERE parent_lang_word_id=? AND task_type=?
\*   AND status IN ('queued','running') ORDER BY id DESC LIMIT 1
ExistingTask(D, parent_lang_word_id, task_type) ==
    Max({t.id : t \in {u \in D.llm_tasks : /\ u.parent_lang_word_id = parent_lang_word_id
                                            /\ u.task_type = task_type
                                            /\ u.status \in InFlight}})

\* The enqueue handlers up to their answer or their INSERT: the parent word
\* must exist (404); an in-flight task of the same parent and type is
\* answered with deduped=true.
EnqueueRead(r, op, task_type, parent_lang_word_id) ==
    /\ Free(r)
    /\ LET existing == ExistingTask(DB, parent_lang_word_id, task_type)
       IN IF parent_lang_word_id \notin WordIds(DB)
          THEN Return(r, op, parent_lang_word_id, Resp(404, NULL, FALSE, <<>>))
          ELSE IF existing # NULL
          THEN Return(r, op, parent_lang_word_id, Resp(202, existing, TRUE, <<>>))
          ELSE req' = [req EXCEPT ![r] =
                   [IdleReq EXCEPT !.op = op, !.pc = "insert", !.kind = task_type,
                                   !.arg = parent_lang_word_id,
                                   !.ident = NoIdent]]
    /\ Rollback
    /\ UNCHANGED <<worker, _worker_started, _worker_lock, tree_ops>>

\* The INSERT of the new queued row, and commit.
EnqueueInsert(r, op) ==
    /\ req[r].op = op /\ req[r].pc = "insert"
    /\ sqlite_sequence.llm_tasks < MaxTasks
    /\ LET t == InsertTask(DB, req[r].arg, req[r].kind, req[r].ident)
       IN IF t.ok
          THEN /\ Commit(t.db)
               /\ Return(r, op, req[r].arg, Resp(202, t.id, FALSE, <<>>))
          ELSE /\ Rollback
               /\ Return(r, op, req[r].arg, Resp(500, NULL, FALSE, <<>>))
    /\ UNCHANGED <<worker, _worker_started, _worker_lock, tree_ops>>

\* POST /api/write/create_lang_words
enqueue_create_lang_words(r, parent_lang_word_id) ==
    EnqueueRead(r, "enqueue_create_lang_words", "create_lang_words", parent_lang_word_id)

enqueue_create_lang_words_insert(r) == EnqueueInsert(r, "enqueue_create_lang_words")

\* POST /api/write/create_child_words
enqueue_create_child_words(r, parent_lang_word_id) ==
    EnqueueRead(r, "enqueue_create_child_words", "create_child_words", parent_lang_word_id)

enqueue_create_child_words_insert(r) == EnqueueInsert(r, "enqueue_create_child_words")

\* str(n) starts with str(s): what LIKE '%"sentence_id": s%' asks of an
\* identifier whose sentence_id is n.
RECURSIVE IsDecimalPrefix(_, _)
IsDecimalPrefix(s, n) ==
    IF n = s THEN TRUE
    ELSE IF n < 10 THEN FALSE
    ELSE IsDecimalPrefix(s, n \div 10)

\* lang_ids = [x for x in lang_ids if x in set(requested_int)] or lang_ids
RECURSIVE FilterIds(_, _)
FilterIds(ids, keep) ==
    IF ids = <<>> THEN <<>>
    ELSE IF Head(ids) \in keep
    THEN <<Head(ids)>> \o FilterIds(Tail(ids), keep)
    ELSE FilterIds(Tail(ids), keep)

\* POST /api/lang_sentences/<id>/child_sentences/auto
create_child_sentences_auto(r, sentence_id, requested) ==
    /\ Free(r)
    /\ LET found == {x \in lang_sentences : x.id = sentence_id}
           sr == CHOOSE x \in found : TRUE
           filtered == FilterIds(sr.lang_word_ids, requested)
           lang_ids == IF filtered # <<>> THEN filtered ELSE sr.lang_word_ids
           existing == Max({t.id : t \in {u \in llm_tasks :
                               /\ u.task_type = "create_child_sentences"
                               /\ u.status \in InFlight
                               /\ IsDecimalPrefix(sentence_id, u.identifier.sentence_id)}})
           op == "create_child_sentences_auto"
       IN IF found = {}
          THEN Return(r, op, sentence_id, Resp(404, NULL, FALSE, <<>>))
          ELSE IF sr.lang_word_ids = <<>>
          THEN Return(r, op, sentence_id, Resp(400, NULL, FALSE, <<>>))
          ELSE IF existing # NULL
          THEN Return(r, op, sentence_id, Resp(202, existing, TRUE, <<>>))
          ELSE req' = [req EXCEPT ![r] =
                   [IdleReq EXCEPT !.op = op, !.pc = "insert",
                                   !.kind = "create_child_sentences",
                                   !.arg = lang_ids[1],
                                   !.ident = Ident(NULL, sentence_id, lang_ids)]]
    /\ Rollback
    /\ UNCHANGED <<worker, _worker_started, _worker_lock, tree_ops>>

create_child_sentences_auto_insert(r) == EnqueueInsert(r, "create_child_sentences_auto")

\* _resolve_star_context: the child word's lang word, and the lang word of
\* the most recently created version that has it as a child (NULL if none).
\* created_at has one-second resolution; version ids order the rows the
\* same way except within one second.
StarContext(D, child_word_id) ==
    LET cw == CHOOSE c \in D.child_words : c.id = child_word_id
        v == CHOOSE u \in D.lang_word_versions : u.id = cw.lang_word_version_id
        parents == {e.parent_lang_word_version_id :
                        e \in {x \in D.lang_word_children :
                                   x.child_lang_word_id = v.lang_word_id}}
        pv == CHOOSE u \in D.lang_word_versions : u.id = Max(parents)
    IN [lang_word_id |-> v.lang_word_id,
        lang_name_id |-> IF parents = {} THEN NULL ELSE pv.lang_word_id]

\* "for p in prompts": one INSERT per entry of the list.
RECURSIVE InsertStarTasks(_, _, _, _, _, _)
InsertStarTasks(D, parent_id, child_word_id, prompts, i, task_ids) ==
    IF i > Len(prompts) THEN [ok |-> TRUE, db |-> D, task_ids |-> task_ids]
    ELSE LET t == InsertTask(D, parent_id, prompts[i], Ident(child_word_id, NULL, <<>>))
         IN IF ~t.ok THEN [ok |-> FALSE, db |-> D, task_ids |-> task_ids]
            ELSE InsertStarTasks(t.db, parent_id, child_word_id, prompts, i + 1,
                                 Append(task_ids, t.id))

\* POST /api/star_stuff/tasks: the prompts are validated, the context is
\* resolved, and every prompt gets a queued row; no row is looked up first.
api_star_stuff_tasks(r, child_word_id, prompts) ==
    /\ Free(r)
    /\ sqlite_sequence.llm_tasks + Len(prompts) <= MaxTasks
    /\ LET op == "api_star_stuff_tasks"
           ctx == StarContext(DB, child_word_id)
           parent_id == IF ctx.lang_name_id # NULL THEN ctx.lang_name_id
                        ELSE ctx.lang_word_id
           res == InsertStarTasks(DB, parent_id, child_word_id, prompts, 1, <<>>)
       IN IF child_word_id \notin {c.id : c \in child_words}
          THEN Rollback /\ Return(r, op, child_word_id, Resp(500, NULL, FALSE, <<>>))
          ELSE IF ~res.ok
          THEN Rollback /\ Return(r, op, child_word_id, Resp(500, NULL, FALSE, <<>>))
          ELSE Commit(res.db)
               /\ Return(r, op, child_word_id, Resp(200, NULL, FALSE, res.task_ids))
    /\ UNCHANGED <<worker, _worker_started, _worker_lock, tree_ops>>

(***************************************************************************)
(* The worker: _process_one_task, one step per database access.  worker[w] *)
(* holds the thread's position and the task row it fetched.  Each worker   *)
(* is the single thread of one server process; all share the storage.      *)
(***************************************************************************)
NoTask ==
    [id |-> NULL, parent_lang_word_id |-> NULL, task_type |-> "", identifier |-> NoIdent]

\* The worker between tasks.  in_transaction is the attribute of the same
\* name of the sqlite3 connection _process_one_task works on: TRUE from its
\* first INSERT, UPDATE or DELETE until its commit, rollback or close.
IdleWorker == [pc |-> "sleep", task |-> NoTask, in_transaction |-> FALSE]

STAR_STUFF_PROMPTS ==
    {"create_star_stuff_words", "create_star_stuff_images", "create_star_stuff_data",
     "create_star_stuff_synthetic_data", "create_star_stuff_code"}

\* The SELECT over queued and running rows.
OldestInFlight(D) ==
    LET inflight == {t \in D.llm_tasks : t.status \in {"queued", "running"}}
    IN IF inflight = {} THEN [id |-> NULL, parent_lang_word_id |-> NULL, task_type |-> "",
                              identifier |-> [child_word_id |-> NULL, sentence_id |-> NULL,
                                              lang_word_ids |-> <<>>]]
       ELSE LET t == CHOOSE x \in inflight : \A y \in inflight : x.id <= y.id
            IN [id |-> t.id, parent_lang_word_id |-> t.parent_lang_word_id,
                task_type |-> t.task_type, identifier |-> t.identifier]

\* The SELECT with ORDER BY id DESC.
NewestQueued(D) ==
    LET queued == {t \in D.llm_tasks : t.status = "queued"}
    IN IF queued = {} THEN [id |-> NULL, parent_lang_word_id |-> NULL, task_type |-> "",
                            identifier |-> [child_word_id |-> NULL, sentence_id |-> NULL,
                                            lang_word_ids |-> <<>>]]
       ELSE LET t == CHOOSE x \in queued : \A y \in queued : x.id >= y.id
            IN [id |-> t.id, parent_lang_word_id |-> t.parent_lang_word_id,
                task_type |-> t.task_type, identifier |-> t.identifier]

\* SELECT ... FROM llm_tasks WHERE status = 'queued' ORDER BY id ASC LIMIT 1
OldestQueued(D) ==
    LET queued == {t \in D.llm_tasks : t.status = "queued"}
    IN IF queued = {} THEN NoTask
       ELSE LET t == CHOOSE x \in queued : \A y \in queued : x.id <= y.id
            IN [id |-> t.id, parent_lang_word_id |-> t.parent_lang_word_id,
                task_type |-> t.task_type, identifier |-> t.identifier]

\* The claim without its UPDATE: the row keeps the status it had.
MarkRunning_StatusKept(D, task_id) == D

\* UPDATE llm_tasks SET status='running' WHERE id=?
MarkRunning(D, task_id) ==
    [D EXCEPT !.llm_tasks = {IF t.id = task_id THEN [t EXCEPT !.status = "running"] ELSE t
                              : t \in @}]

\* The handler's last UPDATE left out: the row keeps status 'running'.
MarkDone_StatusKept(D, task_id) == D

\* UPDATE llm_tasks SET status='done', error=NULL, updated_at=... WHERE id=?
MarkDone(D, task_id) ==
    [D EXCEPT !.llm_tasks = {IF t.id = task_id
                              THEN [t EXCEPT !.status = "done", !.error = NoError]
                              ELSE t : t \in @}]

\* UPDATE llm_tasks SET status='done', result_writing_id=? WHERE id=?
MarkDoneWriting(D, task_id, writing_id) ==
    [D EXCEPT !.llm_tasks = {IF t.id = task_id
                              THEN [t EXCEPT !.status = "done",
                                             !.result_writing_id = writing_id]
                              ELSE t : t \in @}]

\* UPDATE llm_tasks SET status='error', error=? WHERE id=?
MarkError(D, task_id, error) ==
    [D EXCEPT !.llm_tasks = {IF t.id = task_id
                              THEN [t EXCEPT !.status = "error", !.error = error]
                              ELSE t : t \in @}]

\* The task lookup that opens _process_one_task; with no queued row the
\* call returns and the loop sleeps.
_process_one_task_select(w) ==
    /\ worker[w].pc = "sleep"
    /\ LET task == OldestQueued(DB)
       IN IF task.id = NULL
          THEN UNCHANGED worker
          ELSE worker' = [worker EXCEPT ![w] = [pc |-> "claimed", task |-> task, in_transaction |-> FALSE]]
    /\ Rollback
    /\ UNCHANGED <<req, _worker_started, _worker_lock, tree_ops>>

\* The UPDATE to 'running' left without its commit: the row is changed in
\* the worker's connection only, which stays in its transaction.
_process_one_task_running_NoCommit(w) ==
    /\ worker[w].pc = "claimed"
    /\ Rollback
    /\ worker' = [worker EXCEPT ![w].pc = "handler", ![w].in_transaction = TRUE]
    /\ UNCHANGED <<req, _worker_started, _worker_lock, tree_ops>>

\* The UPDATE to 'running' and its commit.
_process_one_task_running(w) ==
    /\ worker[w].pc = "claimed"
    /\ Commit(MarkRunning(DB, worker[w].task.id))
    /\ worker' = [worker EXCEPT ![w].pc = "handler", ![w].in_transaction = FALSE]
    /\ UNCHANGED <<req, _worker_started, _worker_lock, tree_ops>>

\* The exception, if any, that the handler's reads before the model call
\* raise; NoError when the handler gets as far as the call.
HandlerReadError(D, task) ==
    LET ident == task.identifier
        ids == IF ident.lang_word_ids # <<>> THEN ident.lang_word_ids
               ELSE (CHOOSE x \in D.lang_sentences : x.id = ident.sentence_id).lang_word_ids
    IN IF task.task_type \in STAR_STUFF_PROMPTS
       THEN IF ident.child_word_id = NULL
            THEN "child_word_id missing in identifier for star task"
            ELSE IF ident.child_word_id \notin {c.id : c \in D.child_words}
            THEN "name 'NotFound' is not defined"
            ELSE NoError
       ELSE IF task.task_type = "create_child_sentences"
       THEN IF ident.sentence_id = NULL
            THEN "sentence_id missing in identifier for child sentences task"
            ELSE IF ident.sentence_id \notin {x.id : x \in D.lang_sentences}
            THEN "Sentence not found."
            ELSE IF ids = <<>>
            THEN "Sentence has no lang_word_ids."
            ELSE IF SeqToSet(ids) \cap WordIds(D) = {}
            THEN "No ontology data available for provided lang_word_ids."
            ELSE NoError
       ELSE IF task.task_type \in {"create_child_words", "create_lang_words"}
       THEN IF task.parent_lang_word_id \notin WordIds(D)
            THEN "Parent lang word not found."
            ELSE NoError
       ELSE "Unknown task_type"

\* The except clause followed by the end of the thread instead of the
\* next turn of the loop.
RaiseInTask_LoopEnds(w, D, error) ==
    /\ Commit(MarkError(D, worker[w].task.id, error))
    /\ worker' = [worker EXCEPT ![w] = [pc |-> "ended", task |-> NoTask, in_transaction |-> FALSE]]

\* The except clause: the error UPDATE and its commit; _process_one_task
\* returns and _llm_worker_loop sleeps and calls it again.
RaiseInTask(w, D, error) ==
    /\ Commit(MarkError(D, worker[w].task.id, error))
    /\ worker' = [worker EXCEPT ![w] = IdleWorker]

_process_one_task_read(w) ==
    /\ worker[w].pc = "handler"
    /\ LET error == HandlerReadError(DB, worker[w].task)
       IN IF error # NoError
          THEN RaiseInTask(w, DB, error)
          ELSE Rollback /\ worker' = [worker EXCEPT ![w].pc = "llm"]  \* SELECTs only
    /\ UNCHANGED <<req, _worker_started, _worker_lock, tree_ops>>

\* The model call fails (transport, quota, timeout, output off schema).
LLMErrors == {"LLM call failed", "LLM output did not match expected JSON schema."}

\* The model call raises and nothing records it: the worker goes back to
\* the top of its loop and the task row stays as it is.
_process_one_task_llm_raise_Unrecorded(w) ==
    /\ worker[w].pc = "llm"
    /\ Rollback
    /\ worker' = [worker EXCEPT ![w] = IdleWorker]
    /\ UNCHANGED <<req, _worker_started, _worker_lock, tree_ops>>

_process_one_task_llm_raise(w) ==
    /\ worker[w].pc = "llm"
    /\ \E error \in LLMErrors :
          /\ error = "LLM output did not match expected JSON schema."
                => worker[w].task.task_type \in {"create_child_words", "create_lang_words"}
          /\ RaiseInTask(w, DB, error)
    /\ UNCHANGED <<req, _worker_started, _worker_lock, tree_ops>>

\* INSERT INTO star_stuff (child_word_id, prompt_type, text, model, modifier, task_id)
InsertStarStuff(D, child_word_id, prompt_type, task_id) ==
    IF child_word_id \notin {c.id : c \in D.child_words}
    THEN [ok |-> FALSE, db |-> D]
    ELSE [ok |-> TRUE,
          db |-> [D EXCEPT !.star_stuff = @ \cup
                               {[id |-> NextId(D, "star_stuff"),
                                 child_word_id |-> child_word_id,
                                 prompt_type |-> prompt_type, task_id |-> task_id]},
                           !.sqlite_sequence = Bump(D, "star_stuff")]]

\* INSERT INTO child_sentences (lang_sentence_id, child_word_ids, lang_word_ids, sentence)
\* for every parsed item with a non-empty sentence.
RECURSIVE InsertChildSentences(_, _, _, _, _)
InsertChildSentences(D, sentence_id, fallback_ids, items, i) ==
    IF i > Len(items) THEN D
    ELSE LET item == items[i]
             lang_ids == IF item.lang_word_ids = <<>> /\ item.child_word_ids = <<>>
                         THEN fallback_ids ELSE item.lang_word_ids
             row == [id |-> NextId(D, "child_sentences"),
                     lang_sentence_id |-> sentence_id,
                     child_word_ids |-> item.child_word_ids,
                     lang_word_ids |-> lang_ids,
                     sentence |-> Strip(item.sentence)]
         IN IF Strip(item.sentence) = ""
            THEN InsertChildSentences(D, sentence_id, fallback_ids, items, i + 1)
            ELSE InsertChildSentences(
                     [D EXCEPT !.child_sentences = @ \cup {row},
                               !.sqlite_sequence = Bump(D, "child_sentences")],
                     sentence_id, fallback_ids, items, i + 1)

\* The phrase loop: stripped, non-empty, first occurrence only.
RECURSIVE InsertPhrases(_, _, _, _, _)
InsertPhrases(D, version_id, phrases, i, seen) ==
    IF i > Len(phrases) THEN D
    ELSE LET word == Strip(phrases[i])
         IN IF word = "" \/ word \in seen
            THEN InsertPhrases(D, version_id, phrases, i + 1, seen)
            ELSE InsertPhrases(InsertChildWord(D, version_id, word).db,
                               version_id, phrases, i + 1, seen \cup {word})

\* INSERT INTO temporary_writings (parent_lang_word_id, ..., text, ..., task_id)
InsertWriting(D, parent_lang_word_id, text, task_id) ==
    IF parent_lang_word_id \notin WordIds(D)
    THEN [ok |-> FALSE, id |-> NULL, db |-> D]
    ELSE [ok |-> TRUE,
          id |-> NextId(D, "temporary_writings"),
          db |-> [D EXCEPT !.temporary_writings = @ \cup
                               {[id |-> NextId(D, "temporary_writings"),
                                 parent_lang_word_id |-> parent_lang_word_id,
                                 prompt_type |-> "create_lang_words",
                                 text |-> JSONText(text), task_id |-> task_id]},
                           !.sqlite_sequence = Bump(D, "temporary_writings")]]

\* sorted(S) for a set of integers
RECURSIVE Sorted(_)
Sorted(S) ==
    IF S = {} THEN <<>>
    ELSE LET m == CHOOSE x \in S : \A y \in S : x <= y
         IN <<m>> \o Sorted(S \ {m})

\* A block of the cross-reference output as the parser's regular
\* expressions see it: the text after "Phrase:", the ids written "(id n)"
\* or "#n", the ids written "child_word_id n".
Block(phrase, lang_ids, child_ids) ==
    [phrase |-> phrase, lang_ids |-> lang_ids, child_ids |-> child_ids]

RECURSIVE _parse_child_sentence_output(_, _)
_parse_child_sentence_output(blocks, fallback_lang_word_ids) ==
    IF blocks = <<>> THEN <<>>
    ELSE LET b == Head(blocks)
             item == [sentence |-> Strip(b.phrase),
                      lang_word_ids |-> IF b.lang_ids # {} THEN Sorted(b.lang_ids)
                                        ELSE fallback_lang_word_ids,
                      child_word_ids |-> Sorted(b.child_ids)]
             rest == _parse_child_sentence_output(Tail(blocks), fallback_lang_word_ids)
         IN IF Strip(b.phrase) = "" THEN rest ELSE <<item>> \o rest

\* What the model call may return to each handler.
ChildSentenceOutputs ==
    {<<>>, <<Block(" ", {1}, {})>>, <<Block("q", {2, 1}, {1}), Block(" ", {}, {})>>,
     <<Block("p", {3}, {2})>>}     \* "#3" and "child_word_id 2" in the text

ChildWordOutputs == {<<>>, <<"q", " ", "q ">>}

\* The text of a plan response as _run_create_lang_words_llm reads it:
\* whether prose surrounds the outermost {...}, what json.loads makes of the
\* JSON part ("dict", "list", or "none" when there is no JSON), and the
\* "themes" member of a dict.
PlanText(prose, json, has_themes, themes_is_list, themes) ==
    [prose |-> prose, json |-> json, has_themes |-> has_themes,
     themes_is_list |-> themes_is_list, themes |-> themes]

\* json.loads(text_out), on failure json.loads of the text from the first
\* "{" to the last "}", then the two schema tests.
ParsePlan(text) ==
    LET is_dict == text.json = "dict"     \* with prose around it the second
                                          \* json.loads returns the dict
    IN IF ~is_dict \/ ~text.has_themes
       THEN [ok |-> FALSE, error |-> "LLM output did not match expected JSON schema.",
             themes |-> <<>>]
       ELSE IF ~text.themes_is_list
       THEN [ok |-> FALSE, error |-> "LLM output 'themes' must be a list.", themes |-> <<>>]
       ELSE [ok |-> TRUE, error |-> "NULL", themes |-> text.themes]

\* The texts the model returns for a plan request.
PlanTexts ==
    {PlanText(FALSE, "dict", TRUE, TRUE, <<>>),              \* {"themes": []}
     PlanText(TRUE, "dict", TRUE, TRUE,                      \* Here is the plan: {...}
              <<[is_dict |-> TRUE, theme |-> "c", orbit_is_list |-> TRUE,
                 orbiting_phrases |-> <<"p">>]>>),
     PlanText(FALSE, "dict", FALSE, FALSE, <<>>),            \* {"plan": ...}
     PlanText(TRUE, "none", FALSE, FALSE, <<>>)}             \* prose only

LangWordOutputs == {ParsePlan(text).themes : text \in {x \in PlanTexts : ParsePlan(x).ok}}

\* The handler's writes after the model call, the done UPDATE included:
\* the database they leave, or the exception they raise.
HandlerWrites(D, task, out) ==
    LET ident == task.identifier
        ids == IF ident.lang_word_ids # <<>> THEN ident.lang_word_ids
               ELSE (CHOOSE x \in D.lang_sentences : x.id = ident.sentence_id).lang_word_ids
        star == InsertStarStuff(D, ident.child_word_id, task.task_type, task.id)
        items == _parse_child_sentence_output(out, ids)
        v1 == ensure_word_has_v1(D, task.parent_lang_word_id)
        wr == InsertWriting(D, task.parent_lang_word_id, out, task.id)
        fk == "FOREIGN KEY constraint failed"
    IN IF task.task_type \in STAR_STUFF_PROMPTS
       THEN IF star.ok THEN [error |-> NoError, db |-> MarkDone(star.db, task.id)]
            ELSE [error |-> fk, db |-> D]
       ELSE IF task.task_type = "create_child_sentences"
       THEN IF items = <<>>
            THEN [error |-> "LLM returned no parsable child sentences.", db |-> D]
            ELSE IF ident.sentence_id \notin {x.id : x \in D.lang_sentences}
            THEN [error |-> fk, db |-> D]
            ELSE [error |-> NoError,
                  db |-> MarkDone(InsertChildSentences(D, ident.sentence_id, ids, items, 1),
                                  task.id)]
       ELSE IF task.task_type = "create_child_words"
       THEN IF v1.ok
            THEN [error |-> NoError,
                  db |-> MarkDone(InsertPhrases(v1.db, v1.id, out, 1, {}), task.id)]
            ELSE [error |-> fk, db |-> D]
       ELSE IF wr.ok
            THEN [error |-> NoError, db |-> MarkDoneWriting(wr.db, task.id, wr.id)]
            ELSE [error |-> fk, db |-> D]

\* The model call returns; the handler writes its rows, marks the task
\* done and commits, and goes on to the usage logging.  An exception in
\* the writes goes to the except clause.
_process_one_task_done(w) ==
    /\ worker[w].pc = "llm"
    /\ \E out \in (IF worker[w].task.task_type \in STAR_STUFF_PROMPTS THEN {<<>>}
                   ELSE IF worker[w].task.task_type = "create_child_sentences"
                   THEN ChildSentenceOutputs
                   ELSE IF worker[w].task.task_type = "create_child_words"
                   THEN ChildWordOutputs
                   ELSE LangWordOutputs) :
          LET res == HandlerWrites(DB, worker[w].task, out)
          IN IF res.error # NoError
             THEN RaiseInTask(w, DB, res.error)
             ELSE /\ Commit(res.db)
                  /\ worker' = [worker EXCEPT ![w].pc = "log", ![w].in_transaction = FALSE]
    /\ UNCHANGED <<req, _worker_started, _worker_lock, tree_ops>>

\* log_llm_usage writes to the usage database, a separate file, and returns.
log_llm_usage(w) ==
    /\ worker[w].pc = "log"
    /\ Rollback
    /\ worker' = [worker EXCEPT ![w] = IdleWorker]
    /\ UNCHANGED <<req, _worker_started, _worker_lock, tree_ops>>

\* log_llm_usage raises (usage database missing its tables, locked or
\* unwritable; usage is None): still inside the try, so the except clause
\* runs its UPDATE for the task that was just committed as done.
log_llm_usage_raise(w) ==
    /\ worker[w].pc = "log"
    /\ RaiseInTask(w, DB, "no such table: usage_events")
    /\ UNCHANGED <<req, _worker_started, _worker_lock, tree_ops>>

(***************************************************************************)
(* Inputs.                                                                 *)
(***************************************************************************)
\* Texts a client may send as a concept's word.
RawWords == {"a", " a", "b", "c", " "}

\* One entry of a plan's "themes" list as json.loads returns it: a dict
\* with "theme" and "orbiting_phrases", or something that is not a dict.
Theme(name, orbit) ==
    [is_dict |-> TRUE, theme |-> name, orbit_is_list |-> TRUE, orbiting_phrases |-> orbit]

NotADict ==
    [is_dict |-> FALSE, theme |-> "", orbit_is_list |-> FALSE, orbiting_phrases |-> <<>>]

ThemeEntries ==
    {Theme("c", <<"p">>),          \* a name no concept has yet
     Theme("b ", <<"q", " ">>),    \* a padded name, and a blank phrase
     Theme("a", <<"q">>),
     Theme(" ", <<"p">>),          \* a name that strips to nothing
     [Theme("b", <<>>) EXCEPT !.orbit_is_list = FALSE],
     NotADict}

MaxThemes == 2       \* length of a plan's "themes" list

\* The plans _run_create_lang_words_llm can return: a dict whose "themes"
\* is a list, of anything.
Plans == UNION {[1..n -> ThemeEntries] : n \in 0..MaxThemes}

(***************************************************************************)
(* Concept store and apply, one request at a time.                         *)
(*                                                                         *)
(* The initial states are those the server is in after these requests:     *)
(* POST /api/lang_words "a" and "b"; POST child_words "p" under b's        *)
(* version 1; POST /api/write/create_lang_words for "a", twice, the second *)
(* after the worker finished the first; the model returned the same plan   *)
(* both times and the worker stored each as a temporary writing.           *)
(***************************************************************************)
DoneTask(id, parent, writing) ==
    [id |-> id, parent_lang_word_id |-> parent, task_type |-> "create_lang_words",
     identifier |-> NoIdent, status |-> "done", error |-> NoError,
     result_writing_id |-> writing]

Writing(id, parent, text, task) ==
    [id |-> id, parent_lang_word_id |-> parent, prompt_type |-> "create_lang_words",
     text |-> JSONText(text), task_id |-> task]

StagedDB(texts) ==
    [EmptyDB EXCEPT
       !.lang_words = {[id |-> 1, word |-> "a"], [id |-> 2, word |-> "b"]},
       !.lang_word_versions = {[id |-> 1, lang_word_id |-> 1, version |-> 1],
                               [id |-> 2, lang_word_id |-> 2, version |-> 1]},
       !.child_words = {[id |-> 1, lang_word_version_id |-> 2, word |-> "p"]},
       !.llm_tasks = {DoneTask(i, 1, i) : i \in 1..Len(texts)},
       !.temporary_writings = {Writing(i, 1, texts[i], i) : i \in 1..Len(texts)},
       !.sqlite_sequence = [@ EXCEPT !.lang_words = 2, !.lang_word_versions = 2,
                                     !.child_words = 1, !.llm_tasks = Len(texts),
                                     !.temporary_writings = Len(texts)]]

\* No JSON file is loaded by the tree script.
NoTree ==
    /\ roots = <<>>
    /\ nodes = <<>>
    /\ moved = [node_id |-> NULL, new_parent_id |-> NULL, raised |-> FALSE]

\* The process has served its first request: _ensure_worker_started has
\* set the flag and released the lock.
Started ==
    /\ _worker_started = TRUE
    /\ _worker_lock = NULL
    /\ NoTree

InitDB(D) ==
    /\ lang_words = D.lang_words
    /\ lang_word_versions = D.lang_word_versions
    /\ child_words = D.child_words
    /\ lang_word_children = D.lang_word_children
    /\ lang_sentences = D.lang_sentences
    /\ child_sentences = D.child_sentences
    /\ star_stuff = D.star_stuff
    /\ llm_tasks = D.llm_tasks
    /\ temporary_writings = D.temporary_writings
    /\ sqlite_sequence = D.sqlite_sequence
    /\ issued = {<<v.lang_word_id, v.version>> : v \in D.lang_word_versions}

ApplyInit ==
    /\ \E text \in Plans : InitDB(StagedDB(<<text, text>>))
    /\ worker = <<>>
    /\ Started
    /\ req = <<IdleReq>>

ApplyNext ==
    \/ \E r \in DOMAIN req, id \in WordIds(DB) \cup {NULL} :
           create_lang_word_version_read(r, id)
    \/ \E r \in DOMAIN req : create_lang_word_version_insert(r)
    \/ \E r \in DOMAIN req, id \in 1..sqlite_sequence.temporary_writings :
           apply_load(r, id)
    \/ \E r \in DOMAIN req : apply_read_last(r)
    \/ \E r \in DOMAIN req : apply_commit(r)

SpecApply == ApplyInit /\ [][ApplyNext]_vars

(***************************************************************************)
(* Version history under creation, minting, apply and deletion, one        *)
(* request at a time.  The initial state is the one ApplyInit describes,   *)
(* with one create_lang_words task done, whose plan is                     *)
(* {"themes": [{"theme": "b ", "orbiting_phrases": ["q", " "]}]}.          *)
(***************************************************************************)
VersionsInit ==
    /\ InitDB(StagedDB(<< <<Theme("b ", <<"q", " ">>)>> >>))
    /\ worker = <<>>
    /\ Started
    /\ req = <<IdleReq>>

VersionsNext ==
    \/ \E r \in DOMAIN req, raw \in RawWords : create_lang_word_generic(r, raw)
    \/ \E r \in DOMAIN req, id \in WordIds(DB) \cup {NULL} :
           create_lang_word_version_read(r, id)
    \/ \E r \in DOMAIN req : create_lang_word_version_insert(r)
    \/ \E r \in DOMAIN req, id \in VersionIds(DB) : delete_lang_word_version(r, id)
    \/ \E r \in DOMAIN req, id \in 1..sqlite_sequence.temporary_writings :
           apply_load(r, id)
    \/ \E r \in DOMAIN req : apply_read_last(r)
    \/ \E r \in DOMAIN req : apply_commit(r)

SpecVersions == VersionsInit /\ [][VersionsNext]_vars

(***************************************************************************)
(* The task queue with one server process: one request at a time and the   *)
(* process's worker thread.  The initial state is the one the server is in *)
(* after POST /api/lang_words "a" and "b"; b added as child lang word of   *)
(* a's version 1; POST child_words "p" under b's version 1; and            *)
(* POST /api/lang_sentences for [a, b] and for [a].                        *)
(***************************************************************************)
QueueDB ==
    [EmptyDB EXCEPT
       !.lang_words = {[id |-> 1, word |-> "a"], [id |-> 2, word |-> "b"]},
       !.lang_word_versions = {[id |-> 1, lang_word_id |-> 1, version |-> 1],
                               [id |-> 2, lang_word_id |-> 2, version |-> 1]},
       !.lang_word_children = {[id |-> 1, parent_lang_word_version_id |-> 1,
                                child_lang_word_id |-> 2]},
       !.child_words = {[id |-> 1, lang_word_version_id |-> 2, word |-> "p"]},
       !.lang_sentences = {[id |-> 1, lang_word_ids |-> <<1, 2>>],
                           [id |-> 2, lang_word_ids |-> <<1>>]},
       !.sqlite_sequence = [@ EXCEPT !.lang_words = 2, !.lang_word_versions = 2,
                                     !.child_words = 1, !.lang_word_children = 1,
                                     !.lang_sentences = 2]]

\* The prompts lists the star-stuff endpoint is called with.
PromptLists ==
    UNION {[1..n -> {"create_star_stuff_words", "create_star_stuff_code"}] :
               n \in 1..MaxPrompts}

QueueInit ==
    /\ InitDB(QueueDB)
    /\ worker = <<IdleWorker>>
    /\ Started
    /\ req = <<IdleReq>>

EnqueueNext ==
    \/ \E r \in DOMAIN req, id \in 1..(sqlite_sequence.lang_words + 1) :
           enqueue_create_lang_words(r, id)
    \/ \E r \in DOMAIN req : enqueue_create_lang_words_insert(r)
    \/ \E r \in DOMAIN req, id \in 1..(sqlite_sequence.lang_words + 1) :
           enqueue_create_child_words(r, id)
    \/ \E r \in DOMAIN req : enqueue_create_child_words_insert(r)
    \/ \E r \in DOMAIN req, id \in 1..(sqlite_sequence.lang_sentences + 1),
          requested \in {{}, {2}} :
           create_child_sentences_auto(r, id, requested)
    \/ \E r \in DOMAIN req : create_child_sentences_auto_insert(r)
    \/ \E r \in DOMAIN req, id \in 1..(sqlite_sequence.child_words + 1),
          prompts \in PromptLists :
           api_star_stuff_tasks(r, id, prompts)

WorkerNext ==
    \/ \E w \in DOMAIN worker : _process_one_task_select(w)
    \/ \E w \in DOMAIN worker : _process_one_task_running(w)
    \/ \E w \in DOMAIN worker : _process_one_task_read(w)
    \/ \E w \in DOMAIN worker : _process_one_task_llm_raise(w)
    \/ \E w \in DOMAIN worker : _process_one_task_done(w)
    \/ \E w \in DOMAIN worker : log_llm_usage(w)
    \/ \E w \in DOMAIN worker : log_llm_usage_raise(w)

QueueNext == EnqueueNext \/ WorkerNext

SpecQueue == QueueInit /\ [][QueueNext]_vars

(***************************************************************************)
(* The plan and phrase enqueue endpoints with the worker, one request at a *)
(* time, from the same initial state.                                      *)
(***************************************************************************)
EnqueueOnlyNext ==
    \/ \E r \in DOMAIN req, id \in 1..(sqlite_sequence.lang_words + 1) :
           enqueue_create_lang_words(r, id)
    \/ \E r \in DOMAIN req : enqueue_create_lang_words_insert(r)
    \/ \E r \in DOMAIN req, id \in 1..(sqlite_sequence.lang_words + 1) :
           enqueue_create_child_words(r, id)
    \/ \E r \in DOMAIN req : enqueue_create_child_words_insert(r)

SpecEnqueue == QueueInit /\ [][EnqueueOnlyNext \/ WorkerNext]_vars


(***************************************************************************)
(* A worker that loses its task.  The process is killed while the handler  *)
(* runs and a new process starts its own worker thread; or the UPDATE of   *)
(* the except clause raises (database is locked), the exception leaves     *)
(* _process_one_task through its finally, and the loop sleeps and goes on. *)
(***************************************************************************)
worker_crash(w) ==
    /\ worker[w].pc \in {"handler", "llm"}
    /\ Rollback
    /\ worker' = [worker EXCEPT ![w] = IdleWorker]
    /\ UNCHANGED <<req, _worker_started, _worker_lock, tree_ops>>

CrashNext == \E w \in DOMAIN worker : worker_crash(w)

SpecCrash == QueueInit /\ [][EnqueueOnlyNext \/ WorkerNext \/ CrashNext]_vars

(***************************************************************************)
(* Lang words deleted while tasks for them are queued or in the worker's   *)
(* hands: the plan and phrase enqueue endpoints, the worker and            *)
(* DELETE /api/lang_words/<id>, from the initial state of QueueInit.       *)
(***************************************************************************)
DeleteNext == \E r \in DOMAIN req, id \in WordIds(DB) : delete_lang_word(r, id)

SpecDelete == QueueInit /\ [][EnqueueOnlyNext \/ WorkerNext \/ DeleteNext]_vars

(***************************************************************************)
(* The worker's progress.  The loop of _llm_worker_loop never ends and     *)
(* sleeps one second between calls, so a worker step that stays possible   *)
(* is taken; the model call returns or raises.  Requests may come or not.  *)
(***************************************************************************)
PlanEnqueueNext ==
    \/ \E r \in DOMAIN req, id \in 1..(sqlite_sequence.lang_words + 1) :
           enqueue_create_lang_words(r, id)
    \/ \E r \in DOMAIN req : enqueue_create_lang_words_insert(r)

SpecWorkerFair ==
    /\ QueueInit
    /\ [][PlanEnqueueNext \/ WorkerNext]_vars
    /\ WF_vars(WorkerNext)

(***************************************************************************)
(* Two server processes on one database file: each has its own worker      *)
(* thread, because _worker_started is a variable of the process.           *)
(***************************************************************************)
TwoWorkersInit ==
    /\ InitDB(QueueDB)
    /\ worker = <<IdleWorker, IdleWorker>>
    /\ Started
    /\ req = <<IdleReq>>

SpecTwoWorkers == TwoWorkersInit /\ [][EnqueueOnlyNext \/ WorkerNext]_vars

(***************************************************************************)
(* Two requests in flight at once on the version and apply endpoints, from *)
(* the initial state of VersionsInit.                                      *)
(***************************************************************************)
RaceInit ==
    /\ InitDB(StagedDB(<< <<Theme("b ", <<"q", " ">>)>> >>))
    /\ worker = <<>>
    /\ Started
    /\ req = <<IdleReq, IdleReq>>

SpecRace == RaceInit /\ [][ApplyNext]_vars

(***************************************************************************)
(* Two requests in flight at once on the plan and phrase enqueue           *)
(* endpoints, from the initial state of QueueInit; the worker is not       *)
(* started.                                                                *)
(***************************************************************************)
EnqueueRaceInit ==
    /\ InitDB(QueueDB)
    /\ worker = <<>>
    /\ Started
    /\ req = <<IdleReq, IdleReq>>

SpecEnqueueRace == EnqueueRaceInit /\ [][EnqueueOnlyNext]_vars

(***************************************************************************)
(* Apply on a table that also holds rows this server's worker did not      *)
(* write.  temporary_writings is a table of the database file with a free  *)
(* prompt_type and text column, and the handler tests both; the worker of  *)
(* this file only ever inserts 'create_lang_words' rows with json.dumps    *)
(* text.  The initial state is that of VersionsInit with two more rows for *)
(* lang word 1: one of another prompt_type, one whose text is not JSON.    *)
(***************************************************************************)
ForeignDB ==
    LET D == StagedDB(<< <<Theme("c", <<"p">>)>> >>)
    IN [D EXCEPT
          !.temporary_writings = @ \cup
              {[id |-> 2, parent_lang_word_id |-> 1, prompt_type |-> "note",
                text |-> JSONText(<<Theme("c", <<"p">>)>>), task_id |-> NULL],
               [id |-> 3, parent_lang_word_id |-> 1,
                prompt_type |-> "create_lang_words",
                text |-> NotJSON, task_id |-> NULL]},
          !.sqlite_sequence = [@ EXCEPT !.temporary_writings = 3]]

ForeignInit ==
    /\ InitDB(ForeignDB)
    /\ worker = <<>>
    /\ Started
    /\ req = <<IdleReq>>

SpecApplyForeign == ForeignInit /\ [][ApplyNext]_vars

(***************************************************************************)
(* The graph under edge creation and deletion and the deletion of versions *)
(* and lang words, one request at a time.  The initial state is the one    *)
(* after POST /api/lang_words "a" and "b" and POST /api/lang_words/1/      *)
(* versions.                                                               *)
(***************************************************************************)
GraphDB ==
    [EmptyDB EXCEPT
       !.lang_words = {[id |-> 1, word |-> "a"], [id |-> 2, word |-> "b"]},
       !.lang_word_versions = {[id |-> 1, lang_word_id |-> 1, version |-> 1],
                               [id |-> 2, lang_word_id |-> 2, version |-> 1],
                               [id |-> 3, lang_word_id |-> 1, version |-> 2]},
       !.sqlite_sequence = [@ EXCEPT !.lang_words = 2, !.lang_word_versions = 3]]

GraphInit ==
    /\ InitDB(GraphDB)
    /\ worker = <<>>
    /\ Started
    /\ req = <<IdleReq>>

GraphNext ==
    \/ \E r \in DOMAIN req, v \in 1..sqlite_sequence.lang_word_versions,
          raw \in {"p", " "} : create_child_word(r, v, raw)
    \/ \E r \in DOMAIN req, v \in 1..sqlite_sequence.lang_word_versions,
          c \in 1..sqlite_sequence.lang_words : add_child_lang_word(r, v, c)
    \/ \E r \in DOMAIN req, v \in 1..sqlite_sequence.lang_word_versions,
          c \in 1..sqlite_sequence.lang_words : delete_child_lang_word(r, v, c)
    \/ \E r \in DOMAIN req, id \in VersionIds(DB) : delete_lang_word_version(r, id)
    \/ \E r \in DOMAIN req, id \in WordIds(DB) : delete_lang_word(r, id)

SpecGraph == GraphInit /\ [][GraphNext]_vars

(***************************************************************************)
(* Properties of apply_create_lang_words.                                  *)
(***************************************************************************)
\* The database after the step.
DBNext ==
    [lang_words |-> lang_words',
     lang_word_versions |-> lang_word_versions',
     child_words |-> child_words',
     lang_word_children |-> lang_word_children',
     lang_sentences |-> lang_sentences',
     child_sentences |-> child_sentences',
     star_stuff |-> star_stuff',
     llm_tasks |-> llm_tasks',
     temporary_writings |-> temporary_writings',
     sqlite_sequence |-> sqlite_sequence']

\* The step is request r's apply committing and answering 200.
ApplySucceeded(r) ==
    /\ req[r].op = "apply" /\ req[r].pc = "insert"
    /\ req'[r].pc = "done" /\ req'[r].resp.code = 200

\* The plan's entries that name a theme, and a theme's phrases.
NamedThemes(T) == {i \in 1..Len(T) : T[i].is_dict /\ Strip(T[i].theme) # ""}

ThemePhrases(t) ==
    IF t.orbit_is_list
    THEN {Strip(t.orbiting_phrases[j]) : j \in 1..Len(t.orbiting_phrases)} \ {""}
    ELSE {}

NewVersionsOf(id) == VersionsOf(DBNext, id) \ VersionsOf(DB, id)

\* Theme i of the plan has its concept, the edge from parent version pv to
\* it, and its phrases under a version of it that this step inserted.
ThemeApplied(T, i, pv) ==
    LET name == Strip(T[i].theme)
        before == WordIdByText(DB, name)
        after == WordIdByText(DBNext, name)
    IN /\ after # NULL
       /\ before # NULL => after = before
       /\ before = NULL => 1 \in VersionNumbers(DBNext, after)
       /\ \E e \in lang_word_children' :
              e.parent_lang_word_version_id = pv /\ e.child_lang_word_id = after
       /\ \E v \in NewVersionsOf(after) :
              \A ph \in ThemePhrases(T[i]) :
                  \E c \in child_words' \ child_words :
                      c.lang_word_version_id = v.id /\ c.word = ph

\* C5: after a successful applyPlan for subject S with themes T,
\* S has gained exactly one new version, numbered max(previous)+1, which is
\* S's latest; every named theme has its concept (reused, or created with
\* version 1), an edge from S's new version, and its phrases under a version
\* this apply minted or created for it; the artifact is gone.
C5_AsClaimed ==
    [][\A r \in DOMAIN req : ApplySucceeded(r) =>
        LET S == req[r].wr.parent_lang_word_id
            T == req[r].wr.text.themes
        IN /\ Cardinality(NewVersionsOf(S)) = 1
           /\ \A v \in NewVersionsOf(S) :
                  /\ v.version = Max(VersionNumbers(DB, S)) + 1
                  /\ _get_latest_version_id(DBNext, S) = v.id
                  /\ \A i \in NamedThemes(T) : ThemeApplied(T, i, v.id)
           /\ req[r].wr.id \notin {w.id : w \in temporary_writings'}]_vars

PhrasesOf(D, version_id) == {c \in D.child_words : c.lang_word_version_id = version_id}

\* C6: a successful applyPlan leaves the phrase rows of every version that
\* existed before it unchanged, and every phrase row it inserts is under a
\* version that it minted itself and reports in "created".
C6_ApplyKeepsOldPhrases ==
    [][\A r \in DOMAIN req : ApplySucceeded(r) =>
        /\ \A v \in lang_word_versions : PhrasesOf(DBNext, v.id) = PhrasesOf(DB, v.id)
        /\ \A c \in child_words' \ child_words :
              /\ c.lang_word_version_id \notin VersionIds(DB)
              /\ \E k \in 1..Len(req'[r].resp.created) :
                     req'[r].resp.created[k].child_version_id = c.lang_word_version_id]_vars

\* An apply reused a concept that had a phrase under an older version: the
\* old phrase is still there and the new version has its own.
C6_Witness ==
    \E r \in DOMAIN req :
        /\ req[r].op = "apply" /\ req[r].pc = "done" /\ req[r].resp.code = 200
        /\ \E k \in 1..Len(req[r].resp.created) :
             LET cr == req[r].resp.created[k]
             IN /\ PhrasesOf(DB, cr.child_version_id) # {}
                /\ \E v \in VersionsOf(DB, cr.child_lang_word_id) :
                       /\ v.id < cr.child_version_id
                       /\ PhrasesOf(DB, v.id) # {}

OutEdges(D, version_id) ==
    {e \in D.lang_word_children : e.parent_lang_word_version_id = version_id}

\* The step inserts a version row: create_lang_word_version's INSERT, or a
\* successful apply.
MintsVersion == lang_word_versions' \ lang_word_versions # {}

\* C7: a step that mints a version leaves the outgoing edges of every
\* version that existed before unchanged, and every edge a successful apply
\* writes leaves from the subject version that apply minted.
C7_MintKeepsOldEdges ==
    [][/\ MintsVersion =>
            \A v \in lang_word_versions : OutEdges(DBNext, v.id) = OutEdges(DB, v.id)
       /\ \A r \in DOMAIN req : ApplySucceeded(r) =>
            \A e \in lang_word_children' \ lang_word_children :
                /\ e.parent_lang_word_version_id = req'[r].parent_version_id
                /\ e.parent_lang_word_version_id \in
                       {v.id : v \in NewVersionsOf(req[r].wr.parent_lang_word_id)}]_vars

\* The subject has an older version with an edge, and a version minted by a
\* later apply with its own edge.
C7_Witness ==
    \E r \in DOMAIN req :
        /\ req[r].op = "apply" /\ req[r].pc = "done" /\ req[r].resp.code = 200
        /\ OutEdges(DB, req[r].parent_version_id) # {}
        /\ \E v \in VersionsOf(DB, req[r].resp.id) :
               v.id < req[r].parent_version_id /\ OutEdges(DB, v.id) # {}

(***************************************************************************)
(* Properties of version numbering.                                        *)
(***************************************************************************)
\* C8: in every state the version numbers of every concept are 1..n, and a
\* version row inserted for a concept carries a number greater than every
\* number ever issued for that concept before.
C8_VersionsNeverReused ==
    [][/\ \A w \in lang_words' :
            VersionNumbers(DBNext, w.id) = 1..Cardinality(VersionNumbers(DBNext, w.id))
       /\ \A v \in lang_word_versions' \ lang_word_versions :
            \A p \in issued : p[1] = v.lang_word_id => p[2] < v.version]_vars

(***************************************************************************)
(* Properties of the task queue.                                           *)
(***************************************************************************)
EnqueueKind(op) ==
    IF op = "enqueue_create_lang_words" THEN "create_lang_words"
    ELSE IF op = "enqueue_create_child_words" THEN "create_child_words"
    ELSE ""

TasksInFlight(T, parent_lang_word_id, task_type) ==
    {t \in T : /\ t.parent_lang_word_id = parent_lang_word_id
               /\ t.task_type = task_type
               /\ t.status \in InFlight}

\* Request slot r takes a plan or phrase enqueue call in this step.
EnqueueCalled(r) ==
    /\ Free(r)
    /\ req'[r] # req[r]
    /\ EnqueueKind(req'[r].op) # ""

\* Request slot r runs the INSERT of a plan or phrase enqueue call in
\* this step.
EnqueueInserted(r) ==
    /\ EnqueueKind(req[r].op) # ""
    /\ req[r].pc = "insert"
    /\ req'[r].pc = "done"

\* C1: a plan or phrase enqueue called while a task of the same subject
\* and kind is queued or running adds no row and answers with that task's
\* id and deduped=true; called for an existing subject with no such task
\* (none yet, or the earlier ones done or error) it goes on to insert, and
\* its insert adds exactly one row, queued, of that subject and kind, with
\* an id above every id in the table, and answers with that id, not deduped.
C1_EnqueueDedup ==
    [][\A r \in DOMAIN req :
          LET kind == EnqueueKind(req'[r].op)
              subject == req'[r].arg
              inflight == TasksInFlight(llm_tasks, subject, kind)
          IN /\ (EnqueueCalled(r) /\ inflight # {}) =>
                   /\ llm_tasks' = llm_tasks
                   /\ req'[r].pc = "done"
                   /\ req'[r].resp.code = 202
                   /\ req'[r].resp.deduped
                   /\ \A t \in inflight : req'[r].resp.id = t.id
             /\ (EnqueueCalled(r) /\ inflight = {} /\ subject \in WordIds(DB)) =>
                   /\ llm_tasks' = llm_tasks
                   /\ req'[r].pc = "insert"
             /\ EnqueueInserted(r) =>
                   \E t \in llm_tasks' :
                      /\ llm_tasks' = llm_tasks \cup {t}
                      /\ \A u \in llm_tasks : u.id < t.id
                      /\ t.status = "queued"
                      /\ t.parent_lang_word_id = subject
                      /\ t.task_type = kind
                      /\ req'[r].resp = Resp(202, t.id, FALSE, <<>>)]_vars

\* A call was answered deduped with the id of the in-flight task, which is
\* the second task of its subject and kind: the first is done or error.
C1_Witness ==
    \E r \in DOMAIN req : \E t1, t2 \in llm_tasks :
       /\ t1.parent_lang_word_id = t2.parent_lang_word_id
       /\ t1.task_type = t2.task_type
       /\ t1.status \in {"done", "error"}
       /\ t2.status \in InFlight
       /\ t1.id < t2.id
       /\ req[r].op \in {"enqueue_create_lang_words", "enqueue_create_child_words"}
       /\ req[r].arg = t2.parent_lang_word_id
       /\ EnqueueKind(req[r].op) = t2.task_type
       /\ req[r].resp = Resp(202, t2.id, TRUE, <<>>)

\* C2: for every subject and kind at most one task is queued or running,
\* whichever enqueue endpoint inserted the rows.
C2_AtMostOneInFlight ==
    \A t1, t2 \in llm_tasks :
       (/\ t1.parent_lang_word_id = t2.parent_lang_word_id
        /\ t1.task_type = t2.task_type
        /\ t1.status \in InFlight
        /\ t2.status \in InFlight) => t1.id = t2.id

\* C3: the status of a task row changes only from queued to running, from
\* running to done and from running to error; a done or error row keeps
\* its status in every step.
C3_StatusTransitions ==
    [][\A t \in llm_tasks : \A u \in llm_tasks' :
          (t.id = u.id /\ t.status # u.status) =>
              <<t.status, u.status>> \in {<<"queued", "running">>,
                                          <<"running", "done">>,
                                          <<"running", "error">>}]_vars

\* C4: no task is held by two workers that have both marked it running
\* and gone on to its handler.
C4_ClaimedByOneWorker ==
    \A w1, w2 \in DOMAIN worker :
       (/\ w1 # w2
        /\ worker[w1].pc \in {"handler", "llm", "log"}
        /\ worker[w2].pc \in {"handler", "llm", "log"})
           => worker[w1].task.id # worker[w2].task.id

(***************************************************************************)
(* Properties under two concurrent requests.                               *)
(***************************************************************************)
\* C9: no two version rows of one lang word have the same version number,
\* and the row that _get_latest_version_id and ensure_word_has_v1 return
\* (ORDER BY version DESC LIMIT 1, as in the tree listing) is the one whose
\* number is the maximum for the word.
C9_VersionsUniqueLatestIsMax ==
    \A id \in WordIds(DB) :
       /\ \A v1, v2 \in VersionsOf(DB, id) : v1.version = v2.version => v1.id = v2.id
       /\ VersionsOf(DB, id) # {} =>
             \E v \in VersionsOf(DB, id) :
                /\ v.version = Max(VersionNumbers(DB, id))
                /\ _get_latest_version_id(DB, id) = v.id
                /\ ensure_word_has_v1(DB, id).id = v.id

\* Two requests read the same last version of a word; one inserted its
\* successor and the other's INSERT was refused.
C9_Witness ==
    \E r1, r2 \in DOMAIN req :
       /\ r1 # r2
       /\ req[r1].pc = "done" /\ req[r2].pc = "done"
       /\ req[r1].op \in {"create_version", "apply"}
       /\ req[r2].op \in {"create_version", "apply"}
       /\ req[r1].next_version = req[r2].next_version
       /\ req[r1].next_version > 1
       /\ req[r1].resp.code \in {200, 201}
       /\ req[r2].resp.code = 500
       /\ \E id \in WordIds(DB) : Cardinality(VersionsOf(DB, id)) >= 2

\* C10: no two requests both apply the same temporary writing.
C10_ArtifactAppliedOnce ==
    \A r1, r2 \in DOMAIN req :
       (/\ r1 # r2
        /\ req[r1].op = "apply" /\ req[r2].op = "apply"
        /\ req[r1].pc = "done" /\ req[r2].pc = "done"
        /\ req[r1].resp.code = 200 /\ req[r2].resp.code = 200)
           => req[r1].arg # req[r2].arg

(***************************************************************************)
(* Properties of the failing paths of apply_create_lang_words.             *)
(***************************************************************************)
\* Request slot r takes an apply call in this step.
ApplyCalled(r) ==
    /\ Free(r)
    /\ req'[r] # req[r]
    /\ req'[r].op = "apply"

\* C11: an apply call for a writing id that was issued and whose row is
\* gone (an earlier apply deleted it) answers 404 and leaves every table
\* as it was: no version, lang word, edge or phrase is added.
C11_ApplyConsumedNotFound ==
    [][\A r \in DOMAIN req :
          (/\ ApplyCalled(r)
           /\ req'[r].arg \in 1..sqlite_sequence.temporary_writings
           /\ req'[r].arg \notin {w.id : w \in temporary_writings})
              => /\ req'[r].pc = "done"
                 /\ req'[r].resp.code = 404
                 /\ DBNext = DB]_vars

\* The subject got its version from an apply of writing 1, the row is
\* gone, and the last call, for writing 1 again, was answered 404.
C11_Witness ==
    \E r \in DOMAIN req :
       /\ req[r].op = "apply" /\ req[r].pc = "done"
       /\ req[r].resp.code = 404
       /\ req[r].arg = 1
       /\ 1 \notin {w.id : w \in temporary_writings}
       /\ lang_word_children # {}
       /\ Cardinality(VersionsOf(DB, 1)) >= 2

\* C12: an apply call that found its row and ends in failure (wrong
\* prompt_type; text that does not parse, after the version INSERT; an
\* INSERT that was refused) leaves every table as it was: the row is still
\* there and no version, lang word, edge or phrase was added.
C12_FailedApplyWritesNothing ==
    [][\A r \in DOMAIN req :
          (/\ req'[r] # req[r]
           /\ req'[r].op = "apply" /\ req'[r].pc = "done"
           /\ req'[r].resp.code \notin {200, 404})
              => /\ DBNext = DB
                 /\ req'[r].arg \in {w.id : w \in temporary_writings'}]_vars

\* The call for the row whose text is not JSON read the subject's last
\* version, ran its INSERT, and was answered 400; the row is there and the
\* subject has no version with the number the call computed.
C12_Witness ==
    \E r \in DOMAIN req :
       /\ req[r].op = "apply" /\ req[r].pc = "done"
       /\ req[r].resp.code = 400
       /\ ~req[r].wr.text.json
       /\ req[r].next_version > 1
       /\ req[r].arg \in {w.id : w \in temporary_writings}
       /\ req[r].next_version \notin VersionNumbers(DB, req[r].wr.parent_lang_word_id)

(***************************************************************************)
(* Properties of the worker.                                               *)
(***************************************************************************)
\* C13: a create_lang_words task in status error has an error message, and
\* no temporary_writings row carries its id as task_id.
C13_ErrorTaskOwnsNoWriting ==
    \A t \in llm_tasks :
       (t.task_type = "create_lang_words" /\ t.status = "error")
          => /\ t.error # NoError
             /\ \A w \in temporary_writings : w.task_id # t.id

\* C14: a worker that leaves the task it was handling is back at the top
\* of its loop, and the task is in status error with a message, unless the
\* worker left after the usage logging returned and the task is done; and
\* every queued task is claimed in the end, so a task queued behind a
\* failing one is not stuck.
C14_FailureIsolation ==
    /\ [][\A w \in DOMAIN worker :
             (/\ worker[w].pc \in {"handler", "llm", "log"}
              /\ worker'[w].pc \notin {"handler", "llm", "log"})
                => /\ worker'[w].pc = "sleep"
                   /\ \A t \in llm_tasks' :
                         t.id = worker[w].task.id =>
                            \/ t.status = "error" /\ t.error # NoError
                            \/ t.status = "done" /\ worker[w].pc = "log"]_vars
    /\ \A id \in 1..MaxTasks :
          (\E t \in llm_tasks : t.id = id /\ t.status = "queued")
             ~> (\E t \in llm_tasks : t.id = id /\ t.status # "queued")

\* A task ended in error and a task that was inserted after it has been
\* claimed.
C14_Witness ==
    \E t1, t2 \in llm_tasks :
       /\ t1.id < t2.id
       /\ t1.status = "error"
       /\ t1.error # NoError
       /\ t2.status \in {"running", "done", "error"}

(***************************************************************************)
(* Properties of the root listing.                                         *)
(***************************************************************************)
\* The edges of the state before the step that name c as child and are
\* left after it: not the edge the request deleted, and from a version
\* row that is still there.
InboundLeft(r, c) ==
    {e \in lang_word_children :
        /\ e.child_lang_word_id = c
        /\ e.parent_lang_word_version_id \in VersionIds(DBNext)
        /\ ~(/\ req'[r].op = "delete_child_lang_word"
             /\ e.parent_lang_word_version_id = req'[r].arg
             /\ e.child_lang_word_id = req'[r].child)}

\* C15: a request that adds edge (v, c) takes c, and nothing else, out of
\* the root rows and writes no lang word, version or phrase row; a request
\* that deletes an edge, a version or a lang word leaves a lang word in the
\* root rows exactly when none of its inbound edges is left.
C15_RootsDerivedFromEdges ==
    [][\A r \in DOMAIN req :
          /\ (/\ Free(r) /\ req'[r].pc = "done"
              /\ req'[r].op = "add_child_lang_word"
              /\ req'[r].resp.code = 200
              /\ DBNext # DB)
                => /\ root_rows(DBNext) = root_rows(DB) \ {req'[r].child}
                   /\ lang_words' = lang_words
                   /\ lang_word_versions' = lang_word_versions
                   /\ child_words' = child_words
          /\ (/\ Free(r) /\ req'[r].pc = "done"
              /\ req'[r].op \in {"delete_child_lang_word", "delete_version",
                                 "delete_word"}
              /\ DBNext # DB)
                => \A c \in WordIds(DBNext) :
                      c \in root_rows(DBNext) <=> InboundLeft(r, c) = {}]_vars

\* The delete of an edge to lang word 2 was answered with 200 and lang word
\* 2 is still no root, because a second version holds an edge to it.
C15_Witness ==
    \E r \in DOMAIN req :
       /\ req[r].op = "delete_child_lang_word" /\ req[r].pc = "done"
       /\ req[r].resp.code = 200 /\ req[r].child = 2
       /\ ~\E e \in lang_word_children :
             /\ e.parent_lang_word_version_id = req[r].arg
             /\ e.child_lang_word_id = 2
       /\ \E e \in lang_word_children : e.child_lang_word_id = 2
       /\ 2 \notin root_rows(DB)
       /\ 1 \in root_rows(DB)

\* C16: an apply that answers 200 leaves the subject of the plan a root if
\* it was one, and in the root rows after it there is no lang word that the
\* plan names as a theme.
C16_ApplyKeepsSubjectRoot ==
    [][\A r \in DOMAIN req :
          ApplySucceeded(r) =>
             LET T == req[r].wr.text.themes
                 subject == req[r].wr.parent_lang_word_id
             IN /\ subject \in root_rows(DB) => subject \in root_rows(DBNext)
                /\ \A i \in NamedThemes(T) :
                      WordIdByText(DBNext, Strip(T[i].theme)) \notin root_rows(DBNext)]_vars

(***************************************************************************)
(* Properties of the delete of a version and of lang word creation.        *)
(***************************************************************************)
\* C17: a DELETE of a version that is the only version row of its lang word
\* is refused and changes no table, and so every lang word that had a
\* version row before a version delete has one after it.
C17_LastVersionKept ==
    [][\A r \in DOMAIN req :
          (/\ Free(r) /\ req'[r].pc = "done"
           /\ req'[r].op = "delete_version")
             => /\ \A v \in lang_word_versions :
                      (v.id = req'[r].arg /\ VersionsOf(DB, v.lang_word_id) = {v})
                         => /\ req'[r].resp.code # 200
                            /\ DBNext = DB
                /\ \A w \in WordIds(DB) :
                      VersionsOf(DB, w) # {} => VersionsOf(DBNext, w) # {}]_vars

\* The step is request r's POST /api/lang_words with a word that is not
\* blank.
CreateCalled(r, word) ==
    /\ Free(r) /\ req'[r].pc = "done"
    /\ req'[r].op = "create_lang_word"
    /\ req'[r].resp.code # 400
    /\ word # ""
    /\ \/ req'[r].resp.code = 201 /\ \E w \in lang_words' : w.id = req'[r].resp.id /\ w.word = word
       \/ req'[r].resp.code # 201 /\ \E w \in lang_words : w.word = word

NextVersionOf(r) ==
    IF req[r].op = "apply" THEN req[r].wr.parent_lang_word_id ELSE req[r].arg

\* C19: a request that mints the next version of a lang word that exists
\* (POST /api/lang_words/<id>/versions, or apply for its subject) succeeds
\* and inserts the version numbered one above the greatest the lang word
\* had, or 1, also when another request read the same greatest number
\* before either inserted.
C19_NextVersionSucceeds ==
    [][\A r \in DOMAIN req :
          (/\ req[r].op \in {"create_version", "apply"}
           /\ req[r].pc = "insert" /\ req'[r].pc = "done"
           /\ NextVersionOf(r) \in WordIds(DB))
             => /\ req'[r].resp.code \in {200, 201}
                /\ \E v \in lang_word_versions' \ lang_word_versions :
                      /\ v.lang_word_id = NextVersionOf(r)
                      /\ v.version = Max(VersionNumbers(DB, NextVersionOf(r))) + 1]_vars

\* C20: with two enqueue requests in flight at once, no task row is
\* inserted for a subject and kind that has a queued or running task, and
\* no two queued or running tasks of a plan or phrase kind share their
\* subject.
C20_EnqueueRaceDedup ==
    /\ [][\A u \in llm_tasks' :
             u.id \notin {t.id : t \in llm_tasks} =>
                ~\E t \in llm_tasks :
                      /\ t.parent_lang_word_id = u.parent_lang_word_id
                      /\ t.task_type = u.task_type
                      /\ t.status \in InFlight]_vars
    /\ [](\A t, u \in llm_tasks :
             (/\ t.task_type \in {"create_lang_words", "create_child_words"}
              /\ u.task_type = t.task_type
              /\ u.parent_lang_word_id = t.parent_lang_word_id
              /\ t.status \in InFlight /\ u.status \in InFlight) => t = u)

(***************************************************************************)
(* Properties of the worker's claim of a task.                             *)
(***************************************************************************)
\* The step is worker w's UPDATE to 'running' and its commit.
Claims(w) == worker[w].pc = "claimed" /\ worker'[w].pc = "handler"

\* The step moves the row with this id from queued to running.
EntersRunning(id) ==
    /\ \E t \in llm_tasks : t.id = id /\ t.status = "queued"
    /\ \E t \in llm_tasks' : t.id = id /\ t.status = "running"

\* C21: with one worker, a claim moves the task it selected from queued to
\* running and changes no other row; a row that is running, done or error
\* is never claimed again; and a call that finds no queued row leaves the
\* worker asleep and every row as it was.
C21_ClaimedExactlyOnce ==
    [][\A w \in DOMAIN worker :
          /\ Claims(w) =>
                /\ EntersRunning(worker[w].task.id)
                /\ \A t \in llm_tasks :
                      t.id # worker[w].task.id => t \in llm_tasks'
          /\ \A t \in llm_tasks :
                (t.status # "queued" /\ Claims(w)) => worker[w].task.id # t.id
          /\ (/\ worker[w].pc = "sleep"
              /\ ~\E t \in llm_tasks : t.status = "queued"
              /\ llm_tasks' = llm_tasks)
                => worker'[w].pc = "sleep"]_vars

\* The only task was claimed and has ended, and the worker's next call
\* found nothing queued.
C21_Witness ==
    /\ Cardinality(llm_tasks) = 1
    /\ \A t \in llm_tasks : t.status \in {"done", "error"}
    /\ \A w \in DOMAIN worker : worker[w] = IdleWorker
    /\ OldestQueued(DB) = NoTask

\* C22: when a row moves from queued to running no row with a smaller id is
\* queued, and with one worker every row with a greater id is still queued:
\* rows enter running in the order of their ids, whatever their subject and
\* task type.
C22_ClaimsLowestId ==
    [][\A t \in llm_tasks :
          EntersRunning(t.id) =>
             \A u \in llm_tasks :
                /\ u.id < t.id => u.status # "queued"
                /\ u.id > t.id => u.status = "queued"]_vars

\* Task 1 has ended and task 2, of another subject or task type, is
\* running.
C22_Witness ==
    \E t, u \in llm_tasks :
       /\ t.id < u.id
       /\ t.status \in {"done", "error"}
       /\ u.status = "running"
       /\ <<t.parent_lang_word_id, t.task_type>> # <<u.parent_lang_word_id, u.task_type>>

\* C23: a task row holds an error text only while its status is error, and
\* a result_writing_id only while its status is done and its task type is
\* create_lang_words.
C23_ErrorAndResultFields ==
    \A t \in llm_tasks :
       /\ t.error # NoError => t.status = "error"
       /\ t.result_writing_id # NULL =>
             t.status = "done" /\ t.task_type = "create_lang_words"

\* The row is running and no worker holds it.
Orphaned(t) ==
    /\ t.status = "running"
    /\ \A w \in DOMAIN worker : worker[w].task.id # t.id

C25_SentenceIdsExist ==
    [][/\ \A s \in lang_sentences' \ lang_sentences :
             SeqToSet(s.lang_word_ids) \subseteq WordIds(DBNext)
       /\ \A s \in child_sentences' \ child_sentences :
             /\ SeqToSet(s.lang_word_ids) \subseteq WordIds(DBNext)
             /\ SeqToSet(s.child_word_ids) \subseteq {c.id : c \in child_words'}]_vars

(***************************************************************************)
(* Properties of the plan handler's output.                                *)
(***************************************************************************)
\* C26: the writing of a create_lang_words task that is done holds a plan
\* of the expected shape that names something: a list of at least one
\* theme, each a dict with a name and a list of phrases.
C26_DonePlanWellFormed ==
    \A t \in llm_tasks : \A w \in temporary_writings :
       (/\ t.task_type = "create_lang_words" /\ t.status = "done"
        /\ w.id = t.result_writing_id)
          => /\ w.text.json
             /\ w.text.themes # <<>>
             /\ \A i \in 1..Len(w.text.themes) :
                   /\ w.text.themes[i].is_dict
                   /\ Strip(w.text.themes[i].theme) # ""
                   /\ w.text.themes[i].orbit_is_list

(***************************************************************************)
(* Properties of version history and of deletes.                           *)
(***************************************************************************)
\* A version of the same lang word with a greater number exists.
Superseded(D, v) ==
    \E u \in D.lang_word_versions :
       u.lang_word_id = v.lang_word_id /\ u.version > v.version

\* C27: a version that is superseded, and is still there after the step,
\* has the same phrases and the same outgoing edges after every step.
C27_SupersededImmutable ==
    [][\A v \in lang_word_versions :
          (Superseded(DB, v) /\ v \in lang_word_versions')
             => /\ OutEdges(DBNext, v.id) = OutEdges(DB, v.id)
                /\ PhrasesOf(DBNext, v.id) = PhrasesOf(DB, v.id)]_vars

\* Every version, phrase, edge, task and writing row names a lang word or
\* version row that exists.
Referenced(D) ==
    /\ \A v \in D.lang_word_versions : v.lang_word_id \in WordIds(D)
    /\ \A c \in D.child_words : c.lang_word_version_id \in VersionIds(D)
    /\ \A e \in D.lang_word_children :
          /\ e.parent_lang_word_version_id \in VersionIds(D)
          /\ e.child_lang_word_id \in WordIds(D)
    /\ \A t \in D.llm_tasks : t.parent_lang_word_id \in WordIds(D)
    /\ \A w \in D.temporary_writings : w.parent_lang_word_id \in WordIds(D)

\* C28: the delete of a lang word removes its row, its versions with their
\* phrases and outgoing edges, the edges that name it as child, and its
\* tasks and writings, and leaves every other row; and in every state, also
\* while and after a worker handles a task whose lang word was deleted,
\* every version, phrase, edge, task and writing names a row that exists.
C28_DeleteConceptCascades ==
    /\ [] Referenced(DB)
    /\ [][\A r \in DOMAIN req :
             (/\ Free(r) /\ req'[r] # req[r]
              /\ req'[r].pc = "done" /\ req'[r].op = "delete_word")
                => LET id == req'[r].arg
                       gone == {v.id : v \in VersionsOf(DB, id)}
                   IN /\ lang_words' = {w \in lang_words : w.id # id}
                      /\ lang_word_versions' = lang_word_versions \ VersionsOf(DB, id)
                      /\ child_words' =
                            {c \in child_words : c.lang_word_version_id \notin gone}
                      /\ lang_word_children' =
                            {e \in lang_word_children :
                                /\ e.parent_lang_word_version_id \notin gone
                                /\ e.child_lang_word_id # id}
                      /\ llm_tasks' = {t \in llm_tasks : t.parent_lang_word_id # id}
                      /\ temporary_writings' =
                            {w \in temporary_writings : w.parent_lang_word_id # id}]_vars

\* The worker waits for the model's answer to a task whose lang word has
\* been deleted since the handler read it.
C28_Witness ==
    \E w \in DOMAIN worker :
       /\ worker[w].pc = "llm"
       /\ worker[w].task.parent_lang_word_id \notin WordIds(DB)
       /\ \E r \in DOMAIN req : req[r].op = "delete_word" /\ req[r].pc = "done"

(***************************************************************************)
(* Properties of the edge and phrase requests.                             *)
(***************************************************************************)
\* C29: POST .../child_lang_words for a pair that has an edge row answers
\* 200 and leaves lang_word_children as it was, and no two rows of
\* lang_word_children hold the same parent version and child lang word.
C29_AddEdgeIdempotent ==
    /\ [](\A e, f \in lang_word_children :
             (/\ e.parent_lang_word_version_id = f.parent_lang_word_version_id
              /\ e.child_lang_word_id = f.child_lang_word_id) => e = f)
    /\ [][\A r \in DOMAIN req :
             (/\ Free(r)
              /\ req'[r].pc = "done" /\ req'[r].op = "add_child_lang_word"
              /\ \E e \in lang_word_children :
                    /\ e.parent_lang_word_version_id = req'[r].arg
                    /\ e.child_lang_word_id = req'[r].child)
                => /\ req'[r].resp.code = 200
                   /\ lang_word_children' = lang_word_children]_vars

\* The request named the pair of an edge row that is older than the newest
\* edge row ever inserted, and was answered with 200.
C29_Witness ==
    \E r \in DOMAIN req : \E e \in lang_word_children :
       /\ req[r].op = "add_child_lang_word" /\ req[r].pc = "done"
       /\ req[r].resp.code = 200
       /\ e.parent_lang_word_version_id = req[r].arg
       /\ e.child_lang_word_id = req[r].child
       /\ e.id < sqlite_sequence.lang_word_children

\* C30: POST .../child_words for a version id that has no row, and POST
\* .../child_lang_words for a version id or a child lang word id that has
\* no row, answer 404 and leave child_words and lang_word_children as they
\* were.
C30_MissingSideNotFound ==
    [][\A r \in DOMAIN req :
          (/\ Free(r) /\ req'[r].pc = "done"
           /\ \/ /\ req'[r].op = "create_child_word"
                 /\ req'[r].arg \notin VersionIds(DB)
              \/ /\ req'[r].op = "add_child_lang_word"
                 /\ \/ req'[r].arg \notin VersionIds(DB)
                    \/ req'[r].child \notin WordIds(DB))
             => /\ req'[r].resp.code = 404
                /\ child_words' = child_words
                /\ lang_word_children' = lang_word_children]_vars

\* An edge request for a version that exists and a child lang word that was
\* deleted has been answered with 404.
C30_Witness ==
    \E r \in DOMAIN req :
       /\ req[r].op = "add_child_lang_word" /\ req[r].pc = "done"
       /\ req[r].resp.code = 404
       /\ req[r].arg \in VersionIds(DB)
       /\ req[r].child \notin WordIds(DB)


(***************************************************************************)
(* The worker's connection while the model call is out.                    *)
(***************************************************************************)
\* Worker w passes from the handler's reads to the model call.
StartsCall(w) == worker[w].pc = "handler" /\ worker'[w].pc = "llm"

\* C31: while the worker waits on the model call its connection is in no
\* transaction and the committed row of its task is 'running'; the step
\* that reaches the call writes nothing, so every write of the handler
\* comes after the call has returned.
C31_NoWriteHeldDuringCall ==
    /\ [](\A w \in DOMAIN worker :
             worker[w].pc = "llm"
                => /\ ~worker[w].in_transaction
                   /\ \E t \in llm_tasks :
                         t.id = worker[w].task.id /\ t.status = "running")
    /\ [][\A w \in DOMAIN worker : StartsCall(w) => DB' = DB]_vars

\* The worker waits on the model call of one task while a request has
\* committed the row of another.
C31_Witness ==
    \E w \in DOMAIN worker :
       /\ worker[w].pc = "llm"
       /\ \E t \in llm_tasks : t.id > worker[w].task.id /\ t.status = "queued"

(***************************************************************************)
(* The start of the worker thread.  _ensure_schema_and_worker runs before  *)
(* every request and calls _ensure_worker_started on the request's thread. *)
(***************************************************************************)
MaxThreads == 3

\* The thread enters the with block without waiting for the lock.
_ensure_worker_started_NoLock(r) ==
    /\ Free(r)
    /\ _worker_lock' = r
    /\ req' = [req EXCEPT ![r] = [IdleReq EXCEPT !.op = "_ensure_worker_started",
                                                 !.pc = "locked"]]
    /\ Rollback
    /\ UNCHANGED <<worker, _worker_started, tree_ops>>

\* with _worker_lock: the thread waits until the lock is free and takes it.
_ensure_worker_started(r) ==
    /\ Free(r)
    /\ _worker_lock = NULL
    /\ _worker_lock' = r
    /\ req' = [req EXCEPT ![r] = [IdleReq EXCEPT !.op = "_ensure_worker_started",
                                                 !.pc = "locked"]]
    /\ Rollback
    /\ UNCHANGED <<worker, _worker_started, tree_ops>>

\* if _worker_started: return    (leaving the with block releases the lock)
_ensure_worker_started_test(r) ==
    /\ req[r].op = "_ensure_worker_started" /\ req[r].pc = "locked"
    /\ IF _worker_started
       THEN /\ Return(r, "_ensure_worker_started", NULL, NoResp)
            /\ _worker_lock' = NULL
       ELSE /\ req' = [req EXCEPT ![r].pc = "set"]
            /\ UNCHANGED _worker_lock
    /\ Rollback
    /\ UNCHANGED <<worker, _worker_started, tree_ops>>

\* _worker_started = True
_ensure_worker_started_set(r) ==
    /\ req[r].op = "_ensure_worker_started" /\ req[r].pc = "set"
    /\ _worker_started' = TRUE
    /\ req' = [req EXCEPT ![r].pc = "start"]
    /\ Rollback
    /\ UNCHANGED <<worker, _worker_lock, tree_ops>>

\* t = threading.Thread(target=_llm_worker_loop, ...); t.start(); the with
\* block ends and the lock is released.
_ensure_worker_started_start(r) ==
    /\ req[r].op = "_ensure_worker_started" /\ req[r].pc = "start"
    /\ worker' = Append(worker, IdleWorker)
    /\ _worker_lock' = NULL
    /\ Return(r, "_ensure_worker_started", NULL, NoResp)
    /\ Rollback
    /\ UNCHANGED <<_worker_started, tree_ops>>

\* A new process on a database in which an earlier process left a queued
\* task: no request has come yet, no worker thread runs.
StartInit ==
    /\ InitDB(InsertTask(QueueDB, 1, "create_child_words", NoIdent).db)
    /\ worker = <<>>
    /\ req = [r \in 1..MaxThreads |-> IdleReq]
    /\ _worker_started = FALSE
    /\ _worker_lock = NULL
    /\ NoTree

StartNext ==
    \/ \E r \in DOMAIN req : _ensure_worker_started(r)
    \/ \E r \in DOMAIN req : _ensure_worker_started_test(r)
    \/ \E r \in DOMAIN req : _ensure_worker_started_set(r)
    \/ \E r \in DOMAIN req : _ensure_worker_started_start(r)

SpecStart == StartInit /\ [][StartNext \/ WorkerNext]_vars

\* C32: a process never has more than one worker thread, and of the
\* request threads that reach _ensure_worker_started exactly one starts
\* it: once any of them has returned, there is one worker thread, and only
\* the thread that found the flag unset has started one.
C32_OneWorkerThread ==
    /\ [](Len(worker) <= 1)
    /\ [](\A r \in DOMAIN req :
             (req[r].op = "_ensure_worker_started" /\ req[r].pc = "done")
                => Len(worker) = 1)
    /\ [][Len(worker') > Len(worker) => Len(worker) = 0]_vars

\* Two request threads have returned from _ensure_worker_started and one
\* worker thread runs: one of the two started it, the other found the flag
\* set.
C32_Witness ==
    \E r1, r2 \in DOMAIN req :
       /\ r1 # r2
       /\ req[r1].op = "_ensure_worker_started" /\ req[r1].pc = "done"
       /\ req[r2].op = "_ensure_worker_started" /\ req[r2].pc = "done"
       /\ Len(worker) = 1

(***************************************************************************)
(* The create_child_words handler.                                         *)
(***************************************************************************)
\* The step commits task t, of type create_child_words, as done.
PhraseTaskDone(t) ==
    /\ t.task_type = "create_child_words" /\ t.status = "running"
    /\ \E u \in llm_tasks' : u.id = t.id /\ u.status = "done"

\* C33: the step that sets a create_child_words task done mints no version,
\* keeps every phrase row, puts every new phrase row under the version that
\* was the subject's latest, the new rows' words being stripped, non-empty
\* and pairwise different, and leaves result_writing_id unset; and phrase
\* rows beyond the initial ones exist only while some create_child_words
\* task is done, so a task that ends in error has added none.
C33_PhraseTask ==
    /\ [][\A t \in llm_tasks : PhraseTaskDone(t) =>
             LET new == child_words' \ child_words
             IN /\ lang_word_versions' = lang_word_versions
                /\ child_words \subseteq child_words'
                /\ \A c \in new :
                      /\ c.lang_word_version_id =
                            _get_latest_version_id(DB, t.parent_lang_word_id)
                      /\ c.word # "" /\ Strip(c.word) = c.word
                      /\ \A d \in new : d.word = c.word => d = c
                /\ \A u \in llm_tasks' :
                      u.id = t.id => u.result_writing_id = NULL]_vars
    /\ [](child_words # QueueDB.child_words
             => \E t \in llm_tasks :
                   t.task_type = "create_child_words" /\ t.status = "done")

\* C34: with one worker whose loop keeps running and a model call that
\* always returns or raises, every task row that is queued is done or error
\* later on, whatever is enqueued in between.
C34_QueuedTaskEnds ==
    \A id \in 1..MaxTasks :
       (\E t \in llm_tasks : t.id = id /\ t.status = "queued")
          ~> (\E t \in llm_tasks : t.id = id /\ t.status \in {"done", "error"})

\* A task enqueued behind another has ended after the earlier one did.
C34_Witness ==
    \E t, u \in llm_tasks :
       /\ t.id < u.id
       /\ t.status \in {"done", "error"}
       /\ u.status \in {"done", "error"}
       /\ \A w \in DOMAIN worker : worker[w] = IdleWorker

(***************************************************************************)
(* POST /api/lang_word_versions/<id>/child_lang_words/batch                *)
(***************************************************************************)
\* The loop over "words": blank entries are skipped; a word without a row
\* gets one; the edge is inserted unless the pair is there already.
RECURSIVE BatchWords(_, _, _, _)
BatchWords(D, version_id, words, i) ==
    IF i > Len(words) THEN D
    ELSE LET word_text == Strip(words[i])
             existing == WordIdByText(D, word_text)
             w == InsertLangWord(D, word_text)
             child_id == IF existing # NULL THEN existing ELSE w.id
             D1 == IF existing # NULL THEN D ELSE w.db
         IN IF word_text = ""
            THEN BatchWords(D, version_id, words, i + 1)
            ELSE BatchWords(InsertEdgeOrIgnore(D1, version_id, child_id).db,
                            version_id, words, i + 1)

add_child_lang_words_batch(r, version_id, is_list, words) ==
    /\ Free(r)
    /\ BatchWords(DB, version_id, words, 1).sqlite_sequence.lang_words <= MaxWords
    /\ BatchWords(DB, version_id, words, 1).sqlite_sequence.lang_word_children <= MaxEdges
    /\ LET op == "add_child_lang_words_batch"
       IN IF version_id \notin VersionIds(DB)
          THEN Rollback /\ Return(r, op, version_id, Resp(404, NULL, FALSE, <<>>))
          ELSE IF ~is_list
          THEN Rollback /\ Return(r, op, version_id, Resp(400, NULL, FALSE, <<>>))
          ELSE /\ Commit(BatchWords(DB, version_id, words, 1))
               /\ Return(r, op, version_id, Resp(200, NULL, FALSE, <<>>))
    /\ UNCHANGED <<worker, _worker_started, _worker_lock, tree_ops>>

\* Values of "words" in the request body.
BatchLists == {<<>>, <<"c">>, <<" ", "a">>, <<"c", "b ", "c">>}

BatchNext ==
    \/ \E r \in DOMAIN req, raw \in RawWords : create_lang_word_generic(r, raw)
    \/ \E r \in DOMAIN req, v \in 1..(sqlite_sequence.lang_word_versions + 1),
          is_list \in BOOLEAN, words \in BatchLists :
           add_child_lang_words_batch(r, v, is_list, words)

SpecBatch == GraphInit /\ [][BatchNext]_vars

\* C35: every lang word has a version row, and a step that adds lang word
\* rows adds version 1 of each of them.
C35_EveryWordHasVersion ==
    /\ [](\A w \in lang_words : VersionsOf(DB, w.id) # {})
    /\ [][\A w \in lang_words' \ lang_words :
             \E v \in lang_word_versions' \ lang_word_versions :
                v.lang_word_id = w.id /\ v.version = 1]_vars

(***************************************************************************)
(* Cross-reference tasks for sentences whose ids share leading digits:     *)
(* the database of QueueDB after eight more POST /api/lang_sentences, of   *)
(* which the sentences 2 to 9 were deleted again.                          *)
(***************************************************************************)
SentencesDB ==
    [QueueDB EXCEPT
       !.lang_sentences = {[id |-> 1, lang_word_ids |-> <<1, 2>>],
                           [id |-> 10, lang_word_ids |-> <<1>>]},
       !.sqlite_sequence = [@ EXCEPT !.lang_sentences = 10]]

SentencesInit ==
    /\ InitDB(SentencesDB)
    /\ worker = <<IdleWorker>>
    /\ Started
    /\ req = <<IdleReq>>

SentencesNext ==
    \/ \E r \in DOMAIN req, id \in {1, 2, 10}, requested \in {{}, {2}} :
           create_child_sentences_auto(r, id, requested)
    \/ \E r \in DOMAIN req : create_child_sentences_auto_insert(r)

SpecSentences == SentencesInit /\ [][SentencesNext \/ WorkerNext]_vars

\* C36: a call of the auto enqueue for sentence S that answers deduped=true
\* found a create_child_sentences task of sentence S queued or running.
C36_DedupSameSentence ==
    [][\A r \in DOMAIN req :
          (/\ Free(r) /\ req'[r] # req[r]
           /\ req'[r].op = "create_child_sentences_auto"
           /\ req'[r].resp.deduped)
             => \E t \in llm_tasks :
                   /\ t.task_type = "create_child_sentences"
                   /\ t.status \in InFlight
                   /\ t.identifier.sentence_id = req'[r].arg]_vars

\* The task rows in status running.
Running(T) == {t \in T : t.status = "running"}

\* C37: with one worker that is not killed, at most one task row is
\* running, and it is the task the worker holds; a row enters running only
\* in a step before which no row is running, one row per step.
C37_AtMostOneRunning ==
    /\ [](/\ Cardinality(Running(llm_tasks)) <= 1
          /\ \A t \in Running(llm_tasks) :
                \A w \in DOMAIN worker : worker[w].task.id = t.id)
    /\ [][Running(llm_tasks') # Running(llm_tasks)
             => /\ Running(llm_tasks) = {} \/ Running(llm_tasks') = {}
                /\ Cardinality(Running(llm_tasks')) <= 1]_vars

\* The worker's second task is running after its first one has ended.
C37_Witness ==
    \E t, u \in llm_tasks :
       /\ t.id < u.id
       /\ t.status \in {"done", "error"}
       /\ u.status = "running"

\* C38: every temporary_writings row that names a task belongs to a task
\* row that is done and whose result_writing_id is the writing's id; so no
\* writing is there while its task is queued or running.
C38_WritingOwnerDone ==
    \A wr \in temporary_writings :
       wr.task_id # NULL
          => \E t \in llm_tasks :
                /\ t.id = wr.task_id
                /\ t.status = "done"
                /\ t.result_writing_id = wr.id

(***************************************************************************)
(* apply_create_lang_words cut short.  The server process is killed, or    *)
(* the connection is lost, between create_next_version's INSERT and        *)
(* db.commit(): SQLite discards the open transaction.                      *)
(***************************************************************************)
\* The cut of an apply whose statements were committed one by one: the
\* version row of the subject stays.
apply_crash_Partial(r) ==
    /\ req[r].op = "apply" /\ req[r].pc = "insert"
    /\ LET pv == InsertVersion(DB, req[r].wr.parent_lang_word_id, req[r].next_version)
       IN Commit(pv.db)
    /\ Return(r, "apply", req[r].arg, NoResp)
    /\ UNCHANGED <<worker, _worker_started, _worker_lock, tree_ops>>

apply_crash(r) ==
    /\ req[r].op = "apply" /\ req[r].pc = "insert"
    /\ Rollback
    /\ Return(r, "apply", req[r].arg, NoResp)
    /\ UNCHANGED <<worker, _worker_started, _worker_lock, tree_ops>>

ApplyCrashNext == \E r \in DOMAIN req : apply_crash(r)

SpecApplyCrash == ApplyInit /\ [][ApplyNext \/ ApplyCrashNext]_vars

\* The step is the whole of request r's apply: the writing is gone, the
\* subject's new version is there, and every named theme has its concept,
\* its edge from that version and its phrases.
WholeApply(r) ==
    /\ ApplySucceeded(r)
    /\ req[r].wr.id \notin {w.id : w \in temporary_writings'}
    /\ req'[r].parent_version_id \in VersionIds(DBNext) \ VersionIds(DB)
    /\ \A i \in NamedThemes(req[r].wr.text.themes) :
          ThemeApplied(req[r].wr.text.themes, i, req'[r].parent_version_id)

\* C39: every step of an apply request, its end by a kill included, either
\* leaves all tables as they were or is the whole apply; and a writing
\* leaves the table only in a step that is a whole apply.
C39_ApplyAllOrNothing ==
    /\ [][\A r \in DOMAIN req :
             (req'[r] # req[r] /\ "apply" \in {req[r].op, req'[r].op})
                => DBNext = DB \/ WholeApply(r)]_vars
    /\ [][temporary_writings' # temporary_writings
             => \E r \in DOMAIN req : WholeApply(r)]_vars

\* An apply was cut short, its writing is still there, and the subject has
\* the versions it had.
C39_Witness ==
    \E r \in DOMAIN req :
       /\ req[r].op = "apply" /\ req[r].pc = "done" /\ req[r].resp = NoResp
       /\ req[r].arg \in {w.id : w \in temporary_writings}
       /\ Cardinality(VersionsOf(DB, 1)) = 1

(***************************************************************************)
(* tree_ops.py: the JSON tree and move_node.  A node is named by its id;   *)
(* nodes[n] holds what the dict of node n holds: whether "children" is a   *)
(* list, null or not a key, the ids of the list in order, and              *)
(* "parent_writing_id".  None is NULL.                                     *)
(***************************************************************************)
MaxNodes == 3

\* node.get("children", []) or []
Children(N, n) == IF N[n].kind = "list" THEN N[n].children ELSE <<>>

\* walk(node, visit_fn): the ids in the order in which visit_fn is called.
RECURSIVE walk(_, _)
RECURSIVE WalkRoots(_, _)
walk(N, n) == <<n>> \o WalkRoots(N, Children(N, n))

\* for r in roots: walk(r, ...)
WalkRoots(N, ids) ==
    IF ids = <<>> THEN <<>> ELSE walk(N, Head(ids)) \o WalkRoots(N, Tail(ids))

find_by_id(R, N, target_id) ==
    IF target_id \in SeqToSet(WalkRoots(N, R)) THEN target_id ELSE NULL

is_descendant(N, node, potential_descendant_id) ==
    potential_descendant_id \in SeqToSet(walk(N, node))

\* list.pop(i) at the first index that holds x
PopFirst(seq, x) ==
    LET i == CHOOSE k \in 1..Len(seq) : seq[k] = x /\ \A j \in 1..(k - 1) : seq[j] # x
    IN SubSeq(seq, 1, i - 1) \o SubSeq(seq, i + 1, Len(seq))

\* detach_node: out of roots if it is a root; otherwise out of the children
\* of the first node, in the order of the walk, that has it as a child.
detach_node(R, N, node_id) ==
    LET order == WalkRoots(N, R)
        at == {i \in 1..Len(order) : node_id \in SeqToSet(Children(N, order[i]))}
        found_parent == order[CHOOSE i \in at : \A j \in at : i <= j]
    IN IF node_id \in SeqToSet(R)
       THEN [node |-> node_id, roots |-> PopFirst(R, node_id), nodes |-> N]
       ELSE IF at = {}
       THEN [node |-> NULL, roots |-> R, nodes |-> N]
       ELSE [node |-> node_id, roots |-> R,
             nodes |-> [N EXCEPT ![found_parent].children = PopFirst(@, node_id)]]

\* attach_node: append to roots, or to the children of the parent;
\* setdefault makes the list when the key is missing and returns None
\* when the key holds null, on which .append raises AttributeError.
attach_node(R, N, node, new_parent_id) ==
    LET parent == find_by_id(R, N, new_parent_id)
    IN IF new_parent_id = NULL
       THEN [raised |-> FALSE, roots |-> Append(R, node),
             nodes |-> [N EXCEPT ![node].parent_writing_id = NULL]]
       ELSE IF parent = NULL
       THEN [raised |-> TRUE, roots |-> R, nodes |-> N]
       ELSE IF N[parent].kind = "None"
       THEN [raised |-> TRUE, roots |-> R, nodes |-> N]
       ELSE [raised |-> FALSE, roots |-> R,
             nodes |-> [N EXCEPT ![parent].kind = "list",
                                 ![parent].children = Append(Children(N, parent), node),
                                 ![node].parent_writing_id = new_parent_id]]

move_node(R, N, node_id, new_parent_id) ==
    LET node == find_by_id(R, N, node_id)
        new_parent == find_by_id(R, N, new_parent_id)
        d == detach_node(R, N, node_id)
    IN IF node = NULL
       THEN [raised |-> TRUE, roots |-> R, nodes |-> N]
       ELSE IF new_parent_id # NULL /\ new_parent = NULL
       THEN [raised |-> TRUE, roots |-> R, nodes |-> N]
       ELSE IF new_parent_id # NULL /\ is_descendant(N, node, new_parent_id)
       THEN [raised |-> TRUE, roots |-> R, nodes |-> N]
       ELSE IF d.node = NULL
       THEN [raised |-> TRUE, roots |-> d.roots, nodes |-> d.nodes]
       ELSE attach_node(d.roots, d.nodes, d.node, new_parent_id)

\* cmd_move: move_node on the roots of the loaded file.
cmd_move(node_id, new_parent_id) ==
    /\ LET res == move_node(roots, nodes, node_id, new_parent_id)
       IN /\ roots' = res.roots
          /\ nodes' = res.nodes
          /\ moved' = [node_id |-> node_id, new_parent_id |-> new_parent_id,
                       raised |-> res.raised]
    /\ Rollback
    /\ UNCHANGED <<worker, req, _worker_started, _worker_lock>>

\* par is the parent of every node, NULL for a root, and has no cycle.
RECURSIVE ReachesRoot(_, _, _)
ReachesRoot(par, n, k) ==
    IF n = NULL THEN TRUE
    ELSE IF k = 0 THEN FALSE
    ELSE ReachesRoot(par, par[n], k - 1)

\* The files the script is given: a forest of the nodes 1..MaxNodes, the
\* lists in ascending order of id, parent_writing_id as the structure has
\* it, and a node without children with an empty list, null or no key.
TreeInit ==
    /\ InitDB(EmptyDB)
    /\ worker = <<>>
    /\ req = <<>>
    /\ _worker_started = FALSE
    /\ _worker_lock = NULL
    /\ moved = [node_id |-> NULL, new_parent_id |-> NULL, raised |-> FALSE]
    /\ \E par \in [1..MaxNodes -> 0..MaxNodes],
          kind \in [1..MaxNodes -> {"list", "None", "absent"}] :
          /\ \A n \in 1..MaxNodes : ReachesRoot(par, n, MaxNodes)
          /\ \A n \in 1..MaxNodes :
                (\E c \in 1..MaxNodes : par[c] = n) => kind[n] = "list"
          /\ roots = Sorted({n \in 1..MaxNodes : par[n] = NULL})
          /\ nodes = [n \in 1..MaxNodes |->
                        [kind |-> kind[n],
                         children |-> Sorted({c \in 1..MaxNodes : par[c] = n}),
                         parent_writing_id |-> par[n]]]

TreeNext ==
    \E node_id \in 1..(MaxNodes + 1), new_parent_id \in 0..(MaxNodes + 1) :
       cmd_move(node_id, new_parent_id)

SpecTree == TreeInit /\ [][TreeNext]_vars

\* The ids of the forest, and how often id n is an entry of roots or of a
\* children list of a node of the forest.
NodeIds(R, N) == SeqToSet(WalkRoots(N, R))

Occurrences(R, N, n) ==
    Cardinality({i \in 1..Len(R) : R[i] = n})
    + Cardinality({<<p, i>> \in NodeIds(R, N) \X (1..MaxNodes) :
                      i <= Len(Children(N, p)) /\ Children(N, p)[i] = n})

\* The call must raise: the node or the new parent is not in the forest,
\* or the new parent is the node or a node below it.
MustRaise(R, N, n, p) ==
    \/ n \notin NodeIds(R, N)
    \/ p # NULL /\ p \notin NodeIds(R, N)
    \/ p # NULL /\ p \in SeqToSet(walk(N, n))

\* C40: a call of move_node that must raise raises and leaves the forest
\* as it was; any other call returns, the forest has the ids it had, each
\* once, the node's subtree is what it was, the node is an entry of the new
\* parent's children, or of roots for None, and its parent_writing_id is
\* the new parent's id.
C40_MoveNode ==
    [][LET n == moved'.node_id
           p == moved'.new_parent_id
       IN IF MustRaise(roots, nodes, n, p)
          THEN moved'.raised /\ roots' = roots /\ nodes' = nodes
          ELSE /\ ~moved'.raised
               /\ NodeIds(roots', nodes') = NodeIds(roots, nodes)
               /\ \A m \in NodeIds(roots', nodes') : Occurrences(roots', nodes', m) = 1
               /\ walk(nodes', n) = walk(nodes, n)
               /\ IF p = NULL THEN n \in SeqToSet(roots')
                  ELSE n \in SeqToSet(Children(nodes', p))
               /\ nodes'[n].parent_writing_id = p]_vars
====
